---- MODULE Spec2Model ----
(***************************************************************************)
(* Model of the regex-anchor link index engine: the LinkIndexer            *)
(* (linkIndexer.ts), the LinkDecorator's resolver (linkDecorator.ts) and   *)
(* the rebuild controller (extension.ts).                                  *)
(*                                                                         *)
(* Text is a sequence of one-character strings.  A regular expression is   *)
(* a record of the fragment  pre(cls{min,})  or  pre cls{min,} : a literal *)
(* prefix followed by a greedy run of a character class, the run being     *)
(* capture group 1 when cap is TRUE; valid is FALSE for a pattern string   *)
(* that new RegExp rejects.  A path is the sequence of its segments; a     *)
(* glob is a sequence of segments, each a name, "*" or "..".               *)
(*                                                                         *)
(* Every await of rebuildIndex and updateDecorations is a point where the  *)
(* call is suspended; any handler may run before the call is resumed.      *)
(***************************************************************************)
EXTENDS Integers, Sequences, FiniteSets, TLC

VARIABLES
    activated,          \* activate() has run
    workspaceFolders,   \* vscode.workspace.workspaceFolders
    rules,              \* the setting regexAnchor.rules
    files,              \* contents of the destination files on disk: path -> lines
    docText,            \* in-memory text of the source document (lines)
    activeTextEditor,   \* document of vscode.window.activeTextEditor, or NoPath
    linkIndex,          \* LinkIndexer.linkIndex: key -> sequence of locations
    rebuilds,           \* rebuildIndex() calls suspended at an await
    refreshes,          \* updateDecorations() calls suspended at an await
    decorations,        \* decorations last set on the active editor
    settled,            \* history: the last rebuild request completed undisturbed
                        \* and rules, files and folders are as they were then
    generations,        \* history: the number of rebuildIndex() calls that
                        \* inserted the entries the index holds
    shown               \* the last step showed 'Link index has been refreshed'

vars == <<activated, workspaceFolders, rules, files, docText, activeTextEditor,
          linkIndex, rebuilds, refreshes, decorations, settled, generations,
          shown>>

\* an absent editor or document path
NoPath == <<>>

----------------------------------------------------------------------------
(* Bounds of the model *)

\* rebuildIndex() calls that may be suspended at the same time
MaxRebuilds == 2
\* updateDecorations() calls that may be suspended at the same time
MaxRefreshes == 1

----------------------------------------------------------------------------
(* Strings *)

SP == " "
NL == "\n"
Whitespace == {SP, NL}

Max(a, b) == IF a >= b THEN a ELSE b
Min(a, b) == IF a <= b THEN a ELSE b

\* String.prototype.trim
RECURSIVE TrimStart(_)
TrimStart(s) ==
    IF s # <<>> /\ Head(s) \in Whitespace THEN TrimStart(Tail(s)) ELSE s

RECURSIVE TrimEnd(_)
TrimEnd(s) ==
    IF s # <<>> /\ s[Len(s)] \in Whitespace
    THEN TrimEnd(SubSeq(s, 1, Len(s) - 1)) ELSE s

Trim(s) == TrimEnd(TrimStart(s))

\* lines.join("\n"): the text of a document whose lines are given
RECURSIVE JoinLines(_)
JoinLines(ls) ==
    IF ls = <<>> THEN <<>>
    ELSE IF Len(ls) = 1 THEN ls[1]
    ELSE ls[1] \o <<NL>> \o JoinLines(Tail(ls))

----------------------------------------------------------------------------
(* Regular expressions *)

NoMatch == [found |-> FALSE]

\* length of the longest run of characters of cls in s starting at 1-based p
RECURSIVE RunLen(_, _, _)
RunLen(cls, s, p) ==
    IF p <= Len(s) /\ s[p] \in cls THEN 1 + RunLen(cls, s, p + 1) ELSE 0

\* the match of pat starting exactly at 0-based offset i of s, or NoMatch;
\* without the m flag a pattern that starts with ^ (bol) matches at offset 0
\* of s only
MatchAt(pat, s, i) ==
    LET n == Len(pat.pre)
        preOk == /\ i + n <= Len(s)
                 /\ SubSeq(s, i + 1, i + n) = pat.pre
                 /\ ("bol" \in DOMAIN pat /\ pat.bol) => i = 0
        r == RunLen(pat.cls, s, i + n + 1)
    IN  IF preOk /\ r >= pat.min
        THEN [found |-> TRUE,
              index |-> i,
              m0    |-> SubSeq(s, i + 1, i + n + r),
              group |-> pat.cap,
              m1    |-> IF pat.cap THEN SubSeq(s, i + n + 1, i + n + r)
                        ELSE <<>>]
        ELSE NoMatch

\* RegExp.prototype.exec with lastIndex = from: the leftmost match at or
\* after offset from
RECURSIVE RegExpExec(_, _, _)
RegExpExec(pat, s, from) ==
    IF from > Len(s) THEN NoMatch
    ELSE LET m == MatchAt(pat, s, from)
         IN  IF m.found THEN m ELSE RegExpExec(pat, s, from + 1)

\* match[1] || match[0]: group 1 unless it is undefined (the pattern has no
\* group) or the empty string, both falsy
GroupOrWhole(m) ==
    IF ~m.group \/ m.m1 = <<>> THEN m.m0 ELSE m.m1

\* [...s.matchAll(new RegExp(p, 'g'))]: after an empty match lastIndex is
\* advanced by one
RECURSIVE MatchAll(_, _, _)
MatchAll(pat, s, from) ==
    LET m == RegExpExec(pat, s, from)
    IN  IF ~m.found THEN <<>>
        ELSE LET end == m.index + Len(m.m0)
             IN  <<m>> \o MatchAll(pat, s, IF m.m0 = <<>> THEN end + 1 ELSE end)

\* while ((match = pattern.exec(text)) !== null) with the g flag: exec leaves
\* lastIndex at the end of the match, so an empty match is found again at
\* the same offset and the loop never ends.
RECURSIVE ExecLoopDiverges(_, _, _)
ExecLoopDiverges(pat, s, from) ==
    LET m == RegExpExec(pat, s, from)
    IN  IF ~m.found THEN FALSE
        ELSE IF m.m0 = <<>> THEN TRUE
        ELSE ExecLoopDiverges(pat, s, m.index + Len(m.m0))

RECURSIVE ExecLoop(_, _, _)
ExecLoop(pat, s, from) ==
    LET m == RegExpExec(pat, s, from)
    IN  IF ~m.found \/ m.m0 = <<>> THEN <<>>
        ELSE <<m>> \o ExecLoop(pat, s, m.index + Len(m.m0))

----------------------------------------------------------------------------
(* Paths and globs *)

\* path.normalize on a sequence of segments: ".." removes the segment before
RECURSIVE NormalizeFrom(_, _)
NormalizeFrom(done, rest) ==
    IF rest = <<>> THEN done
    ELSE IF Head(rest) = ".."
         THEN NormalizeFrom(IF done = <<>> THEN <<>>
                            ELSE SubSeq(done, 1, Len(done) - 1), Tail(rest))
         ELSE NormalizeFrom(Append(done, Head(rest)), Tail(rest))

\* path.join(basePath, pattern)
PathJoin(basePath, pattern) == NormalizeFrom(<<>>, basePath \o pattern.segs)

\* whether the absolute path f matches the absolute glob segments p
GlobMatches(p, f) ==
    /\ Len(p) = Len(f)
    /\ \A i \in 1..Len(p) : p[i] = "*" \/ p[i] = f[i]

----------------------------------------------------------------------------
(* The workspace of the model: one root, two destination files and one     *)
(* source document, as in the README (src/*.yaml, doc/*.md)                *)

Root == <<"w">>
D1 == <<"w", "src", "d1">>
D2 == <<"w", "src", "d2">>
S  == <<"w", "doc", "s">>
\* a document outside the workspace root
Outside == <<"x", "doc", "s">>

\* the files on disk, in the order in which a directory walk lists them
DiskFiles == <<D1, D2, S, Outside>>

\* the values of vscode.workspace.workspaceFolders: undefined, [] and [Root]
NoWorkspace == [defined |-> FALSE, folders |-> <<>>]
WorkspaceOptions ==
    {NoWorkspace,
     [defined |-> TRUE, folders |-> <<>>],
     [defined |-> TRUE, folders |-> <<Root>>]}

GSrc == [abs |-> FALSE, segs |-> <<"src", "*">>]
GD1  == [abs |-> FALSE, segs |-> <<"src", "d1">>]
GDoc == [abs |-> FALSE, segs |-> <<"doc", "*">>]
\* /w/doc/*, /x/doc/* and ../x/doc/* : absolute globs and a glob with a
\* parent-directory segment
GAbsInside == [abs |-> TRUE, segs |-> <<"w", "doc", "*">>]
GAbsolute  == [abs |-> TRUE, segs |-> <<"x", "doc", "*">>]
GParent    == [abs |-> FALSE, segs |-> <<"..", "x", "doc", "*">>]

\* i([ab ]*) : the shape of "id: (...)", group 1 may be empty or blank
PId   == [valid |-> TRUE, pre |-> <<"i">>, cls |-> {"a", "b", SP}, min |-> 0,
          cap |-> TRUE]
\* ([ab ]+)
PText == [valid |-> TRUE, pre |-> <<>>, cls |-> {"a", "b", SP}, min |-> 1,
          cap |-> TRUE]
\* ([ab]+)
PWord == [valid |-> TRUE, pre |-> <<>>, cls |-> {"a", "b"}, min |-> 1,
          cap |-> TRUE]
\* [iab]+ : no capture group
PLine == [valid |-> TRUE, pre |-> <<>>, cls |-> {"i", "a", "b"}, min |-> 1,
          cap |-> FALSE]

RBasic == [from |-> <<[includes |-> GDoc, patterns |-> PText]>>,
           to   |-> <<[includes |-> GSrc, patterns |-> PId]>>]
\* two destination descriptors whose globs both match D1
RTwoTo == [from |-> <<[includes |-> GDoc, patterns |-> PWord]>>,
           to   |-> <<[includes |-> GD1, patterns |-> PId],
                      [includes |-> GSrc, patterns |-> PId]>>]
RNoCap == [from |-> <<[includes |-> GDoc, patterns |-> PWord]>>,
           to   |-> <<[includes |-> GD1, patterns |-> PLine]>>]

\* the values the setting regexAnchor.rules takes
Configs == {<<>>, <<RBasic>>, <<RTwoTo, RNoCap>>}

\* a pattern string that new RegExp rejects, such as "("
PBad == [valid |-> FALSE, pre |-> <<>>, cls |-> {}, min |-> 1, cap |-> FALSE]

\* src/* written so long that glob.sync throws
GLong == [abs |-> FALSE, segs |-> <<"src", "*">>, throws |-> TRUE]

\* a rule with failing descriptors beside working ones: a source pattern and
\* a destination pattern that do not compile, a destination glob that throws
RFaulty == [from |-> <<[includes |-> GDoc, patterns |-> PBad],
                       [includes |-> GDoc, patterns |-> PWord]>>,
            to   |-> <<[includes |-> GSrc, patterns |-> PBad],
                       [includes |-> GLong, patterns |-> PId],
                       [includes |-> GD1, patterns |-> PId]>>]

\* a rule that has no `to` array yet
RNoTo == [from |-> <<[includes |-> GDoc, patterns |-> PWord]>>]

\* the values of regexAnchor.rules with failing descriptors
FaultConfigs == {<<RFaulty>>, <<RFaulty, RBasic>>, <<RNoTo, RBasic>>}

\* the contents saved to D1: the lines "i a", "i" and the lines "i ", "ib"
D1Contents ==
    { << <<"i", SP, "a">>, <<"i">> >>,
      << <<"i", SP>>, <<"i", "b">> >> }

\* the content of D2: the line "ia"
D2Content == << <<"i", "a">> >>

\* the texts typed into the source document: " a" and "b"
SrcTexts ==
    { << <<SP, "a">> >>,
      << <<"b">> >> }

\* preview lines before and after the target line that the configurations
\* of the model ask for
MaxPreviewLines == 3

\* ^n([ab ]*) : the shape of "name: (.*?)$", applied with the m flag
PName == [valid |-> TRUE, pre |-> <<"n">>, cls |-> {"a", "b", SP}, min |-> 0,
          cap |-> TRUE, bol |-> TRUE]
\* i([ab]+) as a source pattern
PSrcId == [valid |-> TRUE, pre |-> <<"i">>, cls |-> {"a", "b"}, min |-> 1,
           cap |-> TRUE]

\* preview objects: one line after the target and an editor regex, hover
\* switched off, three lines before and none after, an editor regex that
\* does not compile
PvInline  == [linesBefore |-> 0, linesAfter |-> 1, editor |-> PName]
PvNoHover == [hover |-> FALSE]
PvBefore  == [linesBefore |-> MaxPreviewLines, linesAfter |-> 0, hover |-> TRUE]
PvBadEditor == [editor |-> PBad]

\* the first destination descriptor matches D1 only, the second every file
\* under src
RPreview == [from |-> <<[includes |-> GDoc, patterns |-> PWord]>>,
             to   |-> <<[includes |-> GD1, patterns |-> PId, preview |-> PvInline],
                        [includes |-> GSrc, patterns |-> PId, preview |-> PvNoHover]>>]
\* its destination descriptors match D1 only, the first has no preview
RPreviewD1 == [from |-> <<[includes |-> GDoc, patterns |-> PWord]>>,
               to   |-> <<[includes |-> GD1, patterns |-> PLine],
                          [includes |-> GD1, patterns |-> PId, preview |-> PvBefore]>>]
RBadEditor == [from |-> <<[includes |-> GDoc, patterns |-> PWord]>>,
               to   |-> <<[includes |-> GSrc, patterns |-> PId,
                           preview |-> PvBadEditor]>>]
\* two rules whose source patterns match the same text, one taking group 1
\* and one the whole match
RGroup == [from |-> <<[includes |-> GDoc, patterns |-> PSrcId]>>,
           to   |-> <<[includes |-> GSrc, patterns |-> PId]>>]
RWhole == [from |-> <<[includes |-> GDoc, patterns |-> PLine]>>,
           to   |-> <<[includes |-> GSrc, patterns |-> PId]>>]
\* rules that lack `from`, have an empty `from`, have an empty `to`, and a
\* destination descriptor without patterns
RNoFrom    == [to |-> <<[includes |-> GSrc, patterns |-> PId]>>]
REmptyFrom == [from |-> <<>>, to |-> <<[includes |-> GD1, patterns |-> PLine]>>]
REmptyTo   == [from |-> <<[includes |-> GDoc, patterns |-> PWord]>>, to |-> <<>>]
RNoPatterns == [from |-> <<[includes |-> GDoc, patterns |-> PWord]>>,
                to   |-> <<[includes |-> GSrc],
                           [includes |-> GD1, patterns |-> PId]>>]

\* the values of regexAnchor.rules with preview objects and with rules and
\* descriptors that lack a part
PreviewConfigs ==
    {<<RPreview, RPreviewD1>>, <<RBadEditor>>, <<RGroup, RWhole>>,
     <<REmptyTo, RNoPatterns>>, <<RNoFrom, RPreview>>, <<REmptyFrom, REmptyTo>>,
     <<RPreviewD1>>}

\* destination files for the previews: D1 with the lines "ia", "na", "ib",
\* "n" and D2 with the lines "n", "iab"
PreviewFiles ==
    (D1 :> << <<"i", "a">>, <<"n", "a">>, <<"i", "b">>, <<"n">> >>)
    @@ (D2 :> << <<"n">>, <<"i", "a", "b">> >>)

\* the texts typed into the source document: "a b", "ab", "ia" and "ba"
PreviewTexts ==
    { << <<"a", SP, "b">> >>,
      << <<"a", "b">> >>,
      << <<"i", "a">> >>,
      << <<"b", "a">> >> }

----------------------------------------------------------------------------
(* LinkIndexer *)

\* a property that is present and truthy (a string setting that is not "")
Truthy(obj, field) == field \in DOMAIN obj /\ obj[field] # <<>>

\* glob.sync(pattern, { nodir: true }): the files matching, in walk order
GlobSync(pattern) == SelectSeq(DiskFiles, LAMBDA f : GlobMatches(pattern, f))

\* glob.sync throws for the pattern (minimatch rejects a pattern that is too
\* long)
GlobThrows(globPattern) == "throws" \in DOMAIN globPattern /\ globPattern.throws

EmptyIndex == <<>>

\* a faulty clearIndex that leaves the map as it is
clearIndexKeepsEntries(index) == index

\* LinkIndexer.clearIndex
clearIndex(index) == EmptyIndex

\* LinkIndexer.addToIndex.  The Set holds Location objects and compares them
\* by identity; every call passes a newly built object, so add() always
\* inserts.  Insertion order is kept.
addToIndex(index, text, location) ==
    IF text \in DOMAIN index
    THEN [index EXCEPT ![text] = Append(@, location)]
    ELSE index @@ (text :> <<location>>)

\* LinkIndexer.hasDestination
hasDestination(index, text) == text \in DOMAIN index /\ Len(index[text]) > 0

\* LinkIndexer.getDestinations
getDestinations(index, text) == IF text \in DOMAIN index THEN index[text] ELSE <<>>

\* a faulty getDestinations that hands out the container the index holds
getDestinationsResultAliased(index, text) ==
    [list |-> getDestinations(index, text), aliases |-> text \in DOMAIN index]

\* what getDestinations hands to its caller: Array.from(...) and [] build a
\* new array, so the list is not the container the index holds
getDestinationsResult(index, text) ==
    [list |-> getDestinations(index, text), aliases |-> FALSE]

\* the index after the caller has changed the returned list into newList
callerModifies(index, text, returned, newList) ==
    IF returned.aliases THEN [index EXCEPT ![text] = newList] ELSE index

\* the Location built for a matching line; by and text are history fields
\* (the descriptor and the line that produced the entry)
NewLocation(file, lineIndex, line, destination) ==
    [uri |-> file, line |-> lineIndex, start |-> 0, end |-> Len(line),
     by |-> destination, text |-> line]

\* a faulty processLine that applies the pattern with the g flag and inserts
\* a location for every match of the line
RECURSIVE insertMatches(_, _, _, _, _, _)
insertMatches(index, file, destination, line, lineIndex, matches) ==
    IF matches = <<>> THEN index
    ELSE LET linkValue == GroupOrWhole(Head(matches))
             next == IF linkValue # <<>> /\ Trim(linkValue) # <<>>
                     THEN addToIndex(index, Trim(linkValue),
                                     NewLocation(file, lineIndex, line, destination))
                     ELSE index
         IN  insertMatches(next, file, destination, line, lineIndex, Tail(matches))

processLineEveryMatch(index, file, destination, line, lineIndex) ==
    IF ~destination.patterns.valid THEN index
    ELSE insertMatches(index, file, destination, line, lineIndex,
                       MatchAll(destination.patterns, line, 0))

\* a faulty processLine that inserts under the value as matched, not trimmed
processLineUntrimmed(index, file, destination, line, lineIndex) ==
    LET match == IF destination.patterns.valid
                 THEN RegExpExec(destination.patterns, line, 0) ELSE NoMatch
    IN  IF ~match.found \/ GroupOrWhole(match) = <<>> THEN index
        ELSE addToIndex(index, GroupOrWhole(match),
                        NewLocation(file, lineIndex, line, destination))

\* the body of lines.forEach in LinkIndexer.processFile, for one line; a
\* pattern that does not compile throws in new RegExp and the catch logs it
processLine(index, file, destination, line, lineIndex) ==
    LET match == IF destination.patterns.valid
                 THEN RegExpExec(destination.patterns, line, 0) ELSE NoMatch
    IN  IF ~match.found THEN index
        ELSE LET linkValue == GroupOrWhole(match)
             IN  IF linkValue # <<>> /\ Trim(linkValue) # <<>>
                 THEN addToIndex(index, Trim(linkValue),
                                 NewLocation(file, lineIndex, line, destination))
                 ELSE index

RECURSIVE processLines(_, _, _, _, _)
processLines(index, file, destination, lines, lineIndex) ==
    IF lineIndex >= Len(lines) THEN index
    ELSE processLines(
            processLine(index, file, destination, lines[lineIndex + 1], lineIndex),
            file, destination, lines, lineIndex + 1)

\* LinkIndexer.processFile; fs.readFileSync throws for a file that cannot be
\* read (it is not in fs) and the catch logs it
processFile(index, fs, file, destination) ==
    IF file \notin DOMAIN fs THEN index
    ELSE processLines(index, file, destination, fs[file], 0)

RECURSIVE processFiles(_, _, _, _)
processFiles(index, fs, allFiles, destination) ==
    IF allFiles = <<>> THEN index
    ELSE processFiles(processFile(index, fs, Head(allFiles), destination),
                      fs, Tail(allFiles), destination)

\* allFiles of LinkIndexer.processDestination: the matches of the glob under
\* every workspace folder, one folder after the other; a glob.sync that
\* throws is caught and gives no file for the folder
RECURSIVE collectFiles(_, _)
collectFiles(folders, destination) ==
    IF folders = <<>> THEN <<>>
    ELSE (IF GlobThrows(destination.includes) THEN <<>>
          ELSE GlobSync(PathJoin(Head(folders), destination.includes)))
         \o collectFiles(Tail(folders), destination)

\* LinkIndexer.processDestination
processDestination(index, fs, ws, destination) ==
    IF ~ws.defined THEN index
    ELSE processFiles(index, fs, collectFiles(ws.folders, destination), destination)

\* a faulty fan-out in which the first destination that fails (pattern not
\* compiling, glob throwing) ends the processing of the rule's destinations
RECURSIVE processRuleToAbortsOnFailure(_, _, _, _)
processRuleToAbortsOnFailure(index, fs, ws, dests) ==
    IF dests = <<>> THEN index
    ELSE LET destination == Head(dests)
         IN  IF ~Truthy(destination, "includes") \/ ~Truthy(destination, "patterns")
             THEN processRuleToAbortsOnFailure(index, fs, ws, Tail(dests))
             ELSE IF ~destination.patterns.valid \/ GlobThrows(destination.includes)
             THEN index
             ELSE processRuleToAbortsOnFailure(
                      processDestination(index, fs, ws, destination),
                      fs, ws, Tail(dests))

\* rule.to.map(async destination => ...): every destination of the rule is
\* processed, in order, before the awaited Promise.all suspends the caller
RECURSIVE processRuleTo(_, _, _, _)
processRuleTo(index, fs, ws, dests) ==
    IF dests = <<>> THEN index
    ELSE LET destination == Head(dests)
             next == IF ~Truthy(destination, "includes")
                        \/ ~Truthy(destination, "patterns")
                     THEN index
                     ELSE processDestination(index, fs, ws, destination)
         IN  processRuleTo(next, fs, ws, Tail(dests))

\* the index of the first rule at or after position i that has a `to` array,
\* or Len(rs) + 1: rules without one are skipped by `continue`
RECURSIVE NextRuleWithTo(_, _)
NextRuleWithTo(rs, i) ==
    IF i > Len(rs) THEN i
    ELSE IF "to" \in DOMAIN rs[i] THEN i
    ELSE NextRuleWithTo(rs, i + 1)

----------------------------------------------------------------------------
(* LinkDecorator: resolution *)

\* LinkIndexer.isFileMatchGlob throws: glob.sync throws for the first
\* folder, and so does the glob.sync of the catch block
isFileMatchGlobThrows(ws, globPattern) ==
    ws.defined /\ Len(ws.folders) > 0 /\ GlobThrows(globPattern)

\* a faulty isFileMatchGlob that, with no workspace folder, resolves the
\* glob against the directory of the last workspace
isFileMatchGlobFromCwd(ws, fileName, globPattern) ==
    LET matchedFiles == GlobSync(IF globPattern.abs THEN globPattern.segs
                                 ELSE PathJoin(Root, globPattern))
    IN  /\ ~GlobThrows(globPattern)
        /\ \E j \in 1..Len(matchedFiles) : matchedFiles[j] = fileName

\* LinkIndexer.isFileMatchGlob, when it does not throw
isFileMatchGlob(ws, fileName, globPattern) ==
    /\ ws.defined
    /\ ~GlobThrows(globPattern)
    /\ \E k \in 1..Len(ws.folders) :
         LET basePath == ws.folders[k]
             pattern == IF globPattern.abs THEN globPattern.segs
                        ELSE PathJoin(basePath, globPattern)
             matchedFiles == GlobSync(pattern)
         IN  \E j \in 1..Len(matchedFiles) : matchedFiles[j] = fileName

\* the fromPatterns of one rule that apply to the document
RECURSIVE applicableFrom(_, _, _, _)
applicableFrom(ws, fileName, rule, froms) ==
    IF froms = <<>> THEN <<>>
    ELSE LET fromPattern == Head(froms)
             rest == applicableFrom(ws, fileName, rule, Tail(froms))
         IN  IF ~Truthy(fromPattern, "includes") \/ ~Truthy(fromPattern, "patterns")
                \/ ~isFileMatchGlob(ws, fileName, fromPattern.includes)
             THEN rest
             ELSE <<[rule |-> rule, fromPattern |-> fromPattern]>> \o rest

\* LinkDecorator.getRulesForThisSource
RECURSIVE getRulesForThisSource(_, _, _)
getRulesForThisSource(rs, ws, fileName) ==
    IF rs = <<>> THEN <<>>
    ELSE LET rule == Head(rs)
             rest == getRulesForThisSource(Tail(rs), ws, fileName)
         IN  IF "from" \notin DOMAIN rule THEN rest
             ELSE applicableFrom(ws, fileName, rule, rule.from) \o rest

\* defaultConfig of LinkDecorator.getPreviewConfig
defaultConfig == [linesBefore |-> 2, linesAfter |-> 2, hover |-> TRUE]

\* destConfs.find(...) of getPreviewConfig: the first descriptor whose glob
\* matches the destination's path, or Undefined
RECURSIVE findDestConf(_, _, _)
findDestConf(ws, fsPath, destConfs) ==
    IF destConfs = <<>> THEN [found |-> FALSE]
    ELSE IF Truthy(Head(destConfs), "includes")
            /\ isFileMatchGlob(ws, fsPath, Head(destConfs).includes)
         THEN [found |-> TRUE, conf |-> Head(destConfs)]
         ELSE findDestConf(ws, fsPath, Tail(destConfs))

\* destConfs.find(...) of getPreviewConfig throws: isFileMatchGlob throws for
\* a descriptor that comes before the first one whose glob matches
RECURSIVE findDestConfThrows(_, _, _)
findDestConfThrows(ws, fsPath, destConfs) ==
    IF destConfs = <<>> THEN FALSE
    ELSE IF ~Truthy(Head(destConfs), "includes")
         THEN findDestConfThrows(ws, fsPath, Tail(destConfs))
         ELSE IF isFileMatchGlobThrows(ws, Head(destConfs).includes) THEN TRUE
         ELSE IF isFileMatchGlob(ws, fsPath, Head(destConfs).includes) THEN FALSE
         ELSE findDestConfThrows(ws, fsPath, Tail(destConfs))

\* a faulty getPreviewConfig that takes the preview of the rule's first
\* destination descriptor, whatever its glob
getPreviewConfigIgnoresPath(ws, destination, destConfs) ==
    IF destConfs # <<>> /\ "preview" \in DOMAIN Head(destConfs)
    THEN Head(destConfs).preview @@ defaultConfig
    ELSE defaultConfig

\* a faulty getPreviewConfig that spreads the defaults last:
\* { ...matched.preview, ...defaultConfig }
getPreviewConfigDefaultsLast(ws, destination, destConfs) ==
    LET matched == findDestConf(ws, destination.uri, destConfs)
    IN  IF matched.found /\ "preview" \in DOMAIN matched.conf
        THEN defaultConfig @@ matched.conf.preview
        ELSE defaultConfig

\* LinkDecorator.getPreviewConfig: { ...defaultConfig, ...matched.preview }
getPreviewConfig(ws, destination, destConfs) ==
    LET matched == findDestConf(ws, destination.uri, destConfs)
    IN  IF matched.found /\ "preview" \in DOMAIN matched.conf
        THEN matched.conf.preview @@ defaultConfig
        ELSE defaultConfig

\* the null of findDestination
NoDest == [present |-> FALSE]

\* LinkDecorator.findDestination
findDestination(index, ws, linkText, destConfs) ==
    LET destinations == getDestinations(index, linkText)
    IN  IF Len(destinations) > 0
        THEN [present |-> TRUE,
              location |-> destinations[1],
              previewConfig |-> getPreviewConfig(ws, destinations[1], destConfs)]
        ELSE NoDest

\* findDestination(linkText, rule.to) throws: the key has a destination and
\* either the rule has no `to` (destConfs.find of undefined) or the find of
\* getPreviewConfig throws
findDestinationThrows(index, ws, linkText, rule) ==
    /\ Len(getDestinations(index, linkText)) > 0
    /\ \/ "to" \notin DOMAIN rule
       \/ findDestConfThrows(ws, getDestinations(index, linkText)[1].uri, rule.to)

\* TextDocument.positionAt on the joined text: line and column of an offset
RECURSIVE positionAt(_, _, _)
positionAt(lines, offset, lineIndex) ==
    IF lineIndex + 1 >= Len(lines) \/ offset <= Len(lines[lineIndex + 1])
    THEN [line |-> lineIndex,
          character |-> Min(offset, Len(lines[lineIndex + 1]))]
    ELSE positionAt(lines, offset - Len(lines[lineIndex + 1]) - 1, lineIndex + 1)

\* rule.to as passed to findDestination; of a rule without `to` it is
\* undefined, which findDestination reads only where it throws
toOf(rule) == IF "to" \in DOMAIN rule THEN rule.to ELSE <<>>

\* the Result pushed for one match of the whole-document scan
resultOfMatch(index, ws, lines, rule, match) ==
    LET linkText == GroupOrWhole(match)
    IN  [src  |-> [range |-> [start |-> positionAt(lines, match.index, 0),
                              end |-> positionAt(lines, match.index + Len(match.m0), 0)],
                   linkText |-> linkText],
         dest |-> findDestination(index, ws, linkText, toOf(rule))]

\* the try block of findAllLinkMatches for one applicable descriptor; a
\* pattern that does not compile throws and the catch leaves no result, a
\* findDestination that throws ends the loop with the results pushed so far
matchesOfDescriptor(index, ws, lines, applicable) ==
    IF ~applicable.fromPattern.patterns.valid THEN <<>>
    ELSE LET ms == ExecLoop(applicable.fromPattern.patterns, JoinLines(lines), 0)
             throwing == {j \in 1..Len(ms) :
                            findDestinationThrows(index, ws, GroupOrWhole(ms[j]),
                                                  applicable.rule)}
             n == IF throwing = {} THEN Len(ms)
                  ELSE (CHOOSE j \in throwing : \A h \in throwing : j <= h) - 1
         IN  [j \in 1..n |->
                 resultOfMatch(index, ws, lines, applicable.rule, ms[j])]

\* a faulty scan without the try block: the first descriptor whose pattern
\* does not compile ends it
RECURSIVE matchesOfAllStopsAtBadPattern(_, _, _, _)
matchesOfAllStopsAtBadPattern(index, ws, lines, applicableRules) ==
    IF applicableRules = <<>> THEN <<>>
    ELSE IF ~Head(applicableRules).fromPattern.patterns.valid THEN <<>>
    ELSE matchesOfDescriptor(index, ws, lines, Head(applicableRules))
         \o matchesOfAllStopsAtBadPattern(index, ws, lines, Tail(applicableRules))

RECURSIVE matchesOfAll(_, _, _, _)
matchesOfAll(index, ws, lines, applicableRules) ==
    IF applicableRules = <<>> THEN <<>>
    ELSE matchesOfDescriptor(index, ws, lines, Head(applicableRules))
         \o matchesOfAll(index, ws, lines, Tail(applicableRules))

\* LinkDecorator.findAllLinkMatches
findAllLinkMatches(index, rs, ws, fileName, lines) ==
    matchesOfAll(index, ws, lines, getRulesForThisSource(rs, ws, fileName))

\* the positions of a document
Positions(lines) ==
    UNION {{[line |-> l, character |-> c] : c \in 0..Len(lines[l + 1])} :
           l \in 0..(Len(lines) - 1)}

\* range.contains(position) for the range of a match on the position's line:
\* both ends belong to the range
rangeContains(match, position) ==
    /\ match.index <= position.character
    /\ position.character <= match.index + Len(match.m0)

\* the null of findMatchingLinkAtPosition
NoResult == [found |-> FALSE]

\* the try block of findMatchingLinkAtPosition for one applicable
\* descriptor: the first match of the position's line whose range contains
\* the position is returned with its destination; a pattern that does not
\* compile or a findDestination that throws is caught and gives nothing
pointOfDescriptor(index, ws, lines, applicable, position) ==
    IF ~applicable.fromPattern.patterns.valid THEN NoResult
    ELSE LET lineMatches == MatchAll(applicable.fromPattern.patterns,
                                     lines[position.line + 1], 0)
             hits == {j \in 1..Len(lineMatches) :
                        rangeContains(lineMatches[j], position)}
         IN  IF hits = {} THEN NoResult
             ELSE LET match == lineMatches[CHOOSE j \in hits : \A h \in hits : j <= h]
                      linkText == GroupOrWhole(match)
                  IN  IF findDestinationThrows(index, ws, linkText, applicable.rule)
                      THEN NoResult
                      ELSE [found |-> TRUE,
                            src |-> [range |->
                                        [start |-> [line |-> position.line,
                                                    character |-> match.index],
                                         end |-> [line |-> position.line,
                                                  character |-> match.index + Len(match.m0)]],
                                     linkText |-> linkText],
                            dest |-> findDestination(index, ws, linkText,
                                                     toOf(applicable.rule))]

\* the loop of findMatchingLinkAtPosition over the applicable descriptors
RECURSIVE pointOfAll(_, _, _, _, _)
pointOfAll(index, ws, lines, applicableRules, position) ==
    IF applicableRules = <<>> THEN NoResult
    ELSE LET r == pointOfDescriptor(index, ws, lines, Head(applicableRules), position)
         IN  IF r.found THEN r
             ELSE pointOfAll(index, ws, lines, Tail(applicableRules), position)

\* LinkDecorator.findMatchingLinkAtPosition
findMatchingLinkAtPosition(index, rs, ws, fileName, lines, position) ==
    pointOfAll(index, ws, lines, getRulesForThisSource(rs, ws, fileName), position)

\* getRulesForThisSource throws: isFileMatchGlob throws for a source
\* descriptor with includes and patterns
getRulesForThisSourceThrows(rs, ws) ==
    \E i \in 1..Len(rs) :
        /\ "from" \in DOMAIN rs[i]
        /\ \E j \in 1..Len(rs[i].from) :
              /\ Truthy(rs[i].from[j], "includes")
              /\ Truthy(rs[i].from[j], "patterns")
              /\ isFileMatchGlobThrows(ws, rs[i].from[j].includes)

\* provideHover of registerHoverProvider: null, the hover of a broken link,
\* the hover with the preview of the destination, or a rejection when
\* openTextDocument of getDestinationContent cannot open the destination
\* file or getRulesForThisSource throws
provideHover(index, rs, ws, fs, fileName, lines, position) ==
    IF getRulesForThisSourceThrows(rs, ws) THEN [kind |-> "rejected"]
    ELSE LET result == findMatchingLinkAtPosition(index, rs, ws, fileName,
                                                  lines, position)
         IN  IF ~result.found THEN [kind |-> "null"]
             ELSE IF ~result.dest.present
             THEN [kind |-> "broken", range |-> result.src.range,
                   linkText |-> result.src.linkText]
             ELSE IF result.dest.previewConfig.hover = FALSE THEN [kind |-> "null"]
             ELSE IF result.dest.location.uri \notin DOMAIN fs
             THEN [kind |-> "rejected"]
             ELSE [kind |-> "preview", range |-> result.src.range,
                   location |-> result.dest.location]

\* provideDocumentLinks of registerDocumentLinkProvider: one link for every
\* result with a destination, or a rejection when getRulesForThisSource throws
provideDocumentLinks(index, rs, ws, fileName, lines) ==
    IF getRulesForThisSourceThrows(rs, ws) THEN [kind |-> "rejected"]
    ELSE LET results == findAllLinkMatches(index, rs, ws, fileName, lines)
             resolved == SelectSeq(results, LAMBDA r : r.dest.present)
         IN  [kind |-> "links",
              links |-> [j \in 1..Len(resolved) |->
                            [range |-> resolved[j].src.range,
                             target |-> resolved[j].dest.location]]]

----------------------------------------------------------------------------
(* LinkDecorator: the preview of a destination *)

\* the for loop of getDestinationContent from line i to endLine: lineAt(i)
\* throws for an i that is not a line of the document
RECURSIVE readLines(_, _, _)
readLines(doc, i, endLine) ==
    IF i > endLine THEN [throws |-> FALSE, lines |-> <<>>]
    ELSE IF i < 0 \/ i >= Len(doc) THEN [throws |-> TRUE, lines |-> <<>>]
    ELSE LET rest == readLines(doc, i + 1, endLine)
         IN  [throws |-> rest.throws, lines |-> <<doc[i + 1]>> \o rest.lines]

\* a faulty getDestinationContent that takes the window as configured
getDestinationContentUnclipped(fs, destination, config) ==
    readLines(fs[destination.uri], destination.line - config.linesBefore,
              destination.line + config.linesAfter)

\* LinkDecorator.getDestinationContent for a destination whose file can be
\* opened: the lines startLine..endLine of the file
getDestinationContent(fs, destination, config) ==
    LET destDoc == fs[destination.uri]
        startLine == Max(0, destination.line - config.linesBefore)
        endLine == Min(Len(destDoc) - 1, destination.line + config.linesAfter)
    IN  readLines(destDoc, startLine, endLine)

\* content of getDestinationContent: every line read followed by "\n"
RECURSIVE contentOf(_)
contentOf(ls) ==
    IF ls = <<>> THEN <<>> ELSE Head(ls) \o <<NL>> \o contentOf(Tail(ls))

\* new RegExp(editor, 'm').exec(content): with the m flag a pattern that
\* starts with ^ matches at the start of the text and after every "\n"
RECURSIVE editorExec(_, _, _)
editorExec(pat, content, from) ==
    IF from > Len(content) THEN NoMatch
    ELSE LET atLineStart == from = 0 \/ content[from] = NL
             m == IF "bol" \in DOMAIN pat /\ pat.bol /\ ~atLineStart
                  THEN NoMatch
                  ELSE MatchAt([f \in DOMAIN pat \ {"bol"} |-> pat[f]],
                               content, from)
         IN  IF m.found THEN m ELSE editorExec(pat, content, from + 1)

\* the null of createInlineDecorationOption
NoInline == [present |-> FALSE]

\* LinkDecorator.createInlineDecorationOption: an editor regex that does not
\* compile and a destination file that cannot be opened throw inside the
\* try and give null
createInlineDecorationOption(fs, result) ==
    IF ~result.dest.present \/ ~Truthy(result.dest.previewConfig, "editor")
    THEN NoInline
    ELSE IF result.dest.location.uri \notin DOMAIN fs
            \/ ~result.dest.previewConfig.editor.valid
    THEN NoInline
    ELSE LET read == getDestinationContent(fs, result.dest.location,
                                           result.dest.previewConfig)
             editorMatch == IF read.throws THEN NoMatch
                            ELSE editorExec(result.dest.previewConfig.editor,
                                            contentOf(read.lines), 0)
         IN  IF ~editorMatch.found THEN NoInline
             ELSE LET extractedText == GroupOrWhole(editorMatch)
                  IN  IF extractedText # <<>> /\ Trim(extractedText) # <<>>
                      THEN [present |-> TRUE, range |-> result.src.range,
                            contentText |-> <<SP, "(">> \o Trim(extractedText)
                                            \o <<")">>]
                      ELSE NoInline

\* the inline decorations of the results, in result order
RECURSIVE inlineOf(_, _)
inlineOf(fs, results) ==
    IF results = <<>> THEN <<>>
    ELSE LET d == createInlineDecorationOption(fs, Head(results))
         IN  (IF d.present THEN <<d>> ELSE <<>>) \o inlineOf(fs, Tail(results))

----------------------------------------------------------------------------
(* LinkDecorator.updateDecorations *)

NoDecorations == [broken |-> <<>>]

\* the ranges of the results whose destination is present (wanted TRUE) or
\* null (wanted FALSE), in result order
RECURSIVE rangesOf(_, _)
rangesOf(results, wanted) ==
    IF results = <<>> THEN <<>>
    ELSE IF Head(results).dest.present = wanted
         THEN <<Head(results).src.range>> \o rangesOf(Tail(results), wanted)
         ELSE rangesOf(Tail(results), wanted)

\* the decorations updateDecorations sets from the results: none for the
\* resolved links (linkDecorationType gets []), the broken ranges
decorationsOf(results) == [broken |-> rangesOf(results, FALSE)]

\* the three arrays updateDecorations computes from the results:
\* decorations, brokenDecorations and inlineDecorations
decorationArrays(fs, results) ==
    [links  |-> rangesOf(results, TRUE),
     broken |-> rangesOf(results, FALSE),
     inline |-> inlineOf(fs, results)]

\* updateDecorations awaits createInlineDecorationOption for every result
\* with a destination: it is suspended iff there is one
suspends(results) == \E j \in 1..Len(results) : results[j].dest.present

----------------------------------------------------------------------------
(* extension.ts: the rebuild controller *)

\* LinkIndexer.rebuildIndex resumed at rule position i (1 on entry, after
\* clearIndex): rules without a `to` array are skipped, the next rule's
\* destinations are processed and the call is suspended at the await; with
\* no rule left the call returns
rebuildFrom(index, rs, fs, ws, i) ==
    LET j == NextRuleWithTo(rs, i)
    IN  IF j > Len(rs)
        THEN [index |-> index, next |-> j, pc |-> "returned"]
        ELSE [index |-> processRuleTo(index, fs, ws, rs[j].to),
              next |-> j + 1, pc |-> "loop"]

\* a faulty rebuildIndex that, after clearing, scans only when the index
\* held nothing: `if (size > 0) return` taken for the no-folder guard
rebuildIndexScansOnce(index, rs, fs, ws) ==
    IF Len(ws.folders) = 0 \/ index # EmptyIndex
    THEN [index |-> clearIndex(index), next |-> 1, pc |-> "returned"]
    ELSE rebuildFrom(clearIndex(index), rs, fs, ws, 1)

\* LinkIndexer.rebuildIndex from its entry to its first await or its return
rebuildIndexEntry(index, rs, fs, ws) ==
    IF Len(ws.folders) = 0
    THEN [index |-> clearIndex(index), next |-> 1, pc |-> "returned"]
    ELSE rebuildFrom(clearIndex(index), rs, fs, ws, 1)

\* what identifies a location: file path, line number and column span
LocationId(l) == <<l.uri, l.line, l.start, l.end>>

\* the index as a set of (key, location) entries
IndexEntries(index) ==
    UNION {{<<k, LocationId(index[k][j])>> : j \in 1..Len(index[k])} :
           k \in DOMAIN index}

\* history: while these requests run, another request starts or the rules,
\* the files or the folders change
Disturb(rbs) ==
    [j \in 1..Len(rbs) |->
        [rbs[j] EXCEPT !.clean = FALSE, !.fresh = FALSE, !.before = {}]]

\* history: clearIndex has removed the entries these requests inserted
Cleared(rbs) == [j \in 1..Len(rbs) |-> [rbs[j] EXCEPT !.wrote = FALSE]]

\* a faulty rebuildIndex() of extension.ts that also returns at once when
\* the list of workspace folders is empty
CallRebuildIndexNeedsFolder(rs, fs, ws, rbs, unchanged, command) ==
    IF ~ws.defined \/ Len(ws.folders) = 0
    THEN /\ linkIndex' = linkIndex
         /\ rebuilds' = rbs
         /\ settled' = (rbs = <<>>)
         /\ generations' = generations
    ELSE LET r == rebuildIndexEntry(linkIndex, rs, fs, ws)
         IN  /\ Len(rbs) < MaxRebuilds
             /\ linkIndex' = r.index
             /\ rebuilds' = Append(Cleared(Disturb(rbs)),
                    [rules |-> rs, next |-> r.next, pc |-> r.pc,
                     clean |-> rbs = <<>>,
                     fresh |-> rbs = <<>> /\ settled /\ unchanged,
                     before |-> IF rbs = <<>> /\ settled /\ unchanged
                                THEN IndexEntries(linkIndex) ELSE {},
                     wrote |-> r.index # EmptyIndex,
                     command |-> command])
             /\ settled' = FALSE
             /\ generations' = IF r.index # EmptyIndex THEN 1 ELSE 0

\* a faulty rebuildIndex() of extension.ts that, while another request is
\* suspended, clears the index and leaves the scan to that request
CallRebuildIndexCoalesced(rs, fs, ws, rbs, unchanged, command) ==
    IF ~ws.defined
    THEN /\ linkIndex' = linkIndex
         /\ rebuilds' = rbs
         /\ settled' = (rbs = <<>>)
         /\ generations' = generations
    ELSE LET r == IF rbs = <<>> THEN rebuildIndexEntry(linkIndex, rs, fs, ws)
                  ELSE [index |-> EmptyIndex, next |-> 1, pc |-> "returned"]
         IN  /\ Len(rbs) < MaxRebuilds
             /\ linkIndex' = r.index
             /\ rebuilds' = Append(Cleared(Disturb(rbs)),
                    [rules |-> rs, next |-> r.next, pc |-> r.pc,
                     clean |-> rbs = <<>>,
                     fresh |-> rbs = <<>> /\ settled /\ unchanged,
                     before |-> IF rbs = <<>> /\ settled /\ unchanged
                                THEN IndexEntries(linkIndex) ELSE {},
                     wrote |-> r.index # EmptyIndex,
                     command |-> command])
             /\ settled' = FALSE
             /\ generations' = IF r.index # EmptyIndex THEN 1 ELSE 0

\* rebuildIndex() of extension.ts, from the call to its await or, with no
\* workspace folders, to its return.  rs, fs, ws are the rules, files and
\* folders when it is called, rbs the suspended requests, unchanged whether
\* nothing changed in the calling handler.
CallRebuildIndex(rs, fs, ws, rbs, unchanged, command) ==
    IF ~ws.defined
    THEN /\ linkIndex' = linkIndex
         /\ rebuilds' = rbs
         /\ settled' = (rbs = <<>>)
         /\ generations' = generations
    ELSE LET r == rebuildIndexEntry(linkIndex, rs, fs, ws)
         IN  /\ Len(rbs) < MaxRebuilds
             /\ linkIndex' = r.index
             /\ rebuilds' = Append(Cleared(Disturb(rbs)),
                    [rules |-> rs, next |-> r.next, pc |-> r.pc,
                     clean |-> rbs = <<>>,
                     fresh |-> rbs = <<>> /\ settled /\ unchanged,
                     before |-> IF rbs = <<>> /\ settled /\ unchanged
                                THEN IndexEntries(linkIndex) ELSE {},
                     wrote |-> r.index # EmptyIndex,
                     command |-> command])
             /\ settled' = FALSE
             /\ generations' = IF r.index # EmptyIndex THEN 1 ELSE 0

\* updateDecorations(editor) for the editor of the source document, from the
\* call to its first await or, with no resolved result, to its end
CallUpdateDecorations(results) ==
    IF suspends(results)
    THEN /\ Len(refreshes) < MaxRefreshes
         /\ refreshes' = Append(refreshes, decorationsOf(results))
         /\ decorations' = decorations
    ELSE /\ refreshes' = refreshes
         /\ decorations' = decorationsOf(results)

\* activate(): builds the indexer, calls rebuildIndex(), registers the
\* handlers and refreshes the active editor
Activate ==
    /\ ~activated
    /\ activated' = TRUE
    /\ CallRebuildIndex(rules, files, workspaceFolders, rebuilds, TRUE, FALSE)
    /\ LET results == findAllLinkMatches(linkIndex', rules, workspaceFolders, S, docText)
       IN  IF activeTextEditor # NoPath
           THEN CallUpdateDecorations(results)
           ELSE UNCHANGED <<refreshes, decorations>>
    /\ shown' = FALSE
    /\ UNCHANGED <<workspaceFolders, rules, files, docText, activeTextEditor>>

\* a faulty command handler that does not await rebuildIndex()
RefreshCommandConfirmsAtOnce ==
    /\ activated
    /\ CallRebuildIndex(rules, files, workspaceFolders, rebuilds, TRUE, FALSE)
    /\ shown' = TRUE
    /\ UNCHANGED <<activated, workspaceFolders, rules, files, docText,
                   activeTextEditor, refreshes, decorations>>

\* the command regex-anchor.refresh: the handler awaits rebuildIndex(), then
\* shows the message; with no workspace folders rebuildIndex() returns at
\* once and the message follows
RefreshCommand ==
    /\ activated
    /\ CallRebuildIndex(rules, files, workspaceFolders, rebuilds, TRUE, TRUE)
    /\ shown' = ~workspaceFolders.defined
    /\ UNCHANGED <<activated, workspaceFolders, rules, files, docText,
                   activeTextEditor, refreshes, decorations>>

\* onDidChangeConfiguration, the change affecting regexAnchor: the setting
\* becomes rs
DidChangeConfiguration(rs) ==
    /\ activated
    /\ rules' = rs
    /\ CallRebuildIndex(rs, files, workspaceFolders,
                        IF rs = rules THEN rebuilds ELSE Disturb(rebuilds), rs = rules,
                        FALSE)
    /\ shown' = FALSE
    /\ UNCHANGED <<activated, workspaceFolders, files, docText,
                   activeTextEditor, refreshes, decorations>>

\* onDidChangeConfiguration, the change not affecting regexAnchor
DidChangeOtherConfiguration ==
    /\ activated
    /\ shown' = FALSE
    /\ UNCHANGED <<activated, workspaceFolders, rules, files, docText,
                   activeTextEditor, linkIndex, rebuilds, refreshes,
                   decorations, settled, generations>>

\* link.destinations || [] of the save handler
destinationsOf(link) ==
    IF "destinations" \in DOMAIN link THEN link.destinations ELSE <<>>

\* isDestinationFile of the save handler
isDestinationFile(rs, ws, fileName) ==
    \E i \in 1..Len(rs) :
        \E j \in 1..Len(destinationsOf(rs[i])) :
            LET dest == destinationsOf(rs[i])[j]
            IN  /\ Truthy(dest, "includes")
                /\ isFileMatchGlob(ws, fileName, dest.includes)

\* onDidSaveTextDocument: the document is written to disk with the given
\* content, then the handler runs (files holds the destination files only)
DidSaveTextDocument(doc, content) ==
    /\ activated
    /\ files' = IF doc \in DOMAIN files THEN [files EXCEPT ![doc] = content]
                 ELSE files
    /\ LET unchanged == files' = files
           rbs == IF unchanged THEN rebuilds ELSE Disturb(rebuilds)
       IN  IF isDestinationFile(rules, workspaceFolders, doc)
           THEN CallRebuildIndex(rules, files', workspaceFolders, rbs, unchanged,
                                 FALSE)
           ELSE /\ linkIndex' = linkIndex
                /\ rebuilds' = rbs
                /\ settled' = (settled /\ unchanged)
                /\ generations' = generations
    /\ shown' = FALSE
    /\ UNCHANGED <<activated, workspaceFolders, rules, docText,
                   activeTextEditor, refreshes, decorations>>

\* a faulty onDidChangeTextDocument that also requests a rebuild
DidChangeTextDocumentRebuilds(text) ==
    /\ activated
    /\ docText' = text
    /\ CallRebuildIndex(rules, files, workspaceFolders, rebuilds, TRUE, FALSE)
    /\ LET results == findAllLinkMatches(linkIndex', rules, workspaceFolders, S, text)
       IN  IF activeTextEditor = S
           THEN CallUpdateDecorations(results)
           ELSE UNCHANGED <<refreshes, decorations>>
    /\ shown' = FALSE
    /\ UNCHANGED <<activated, workspaceFolders, rules, files, activeTextEditor>>

\* onDidChangeTextDocument for the source document
DidChangeTextDocument(text) ==
    /\ activated
    /\ docText' = text
    /\ LET results == findAllLinkMatches(linkIndex, rules, workspaceFolders, S, text)
       IN  IF activeTextEditor = S
           THEN CallUpdateDecorations(results)
           ELSE UNCHANGED <<refreshes, decorations>>
    /\ shown' = FALSE
    /\ UNCHANGED <<activated, workspaceFolders, rules, files, activeTextEditor,
                   linkIndex, rebuilds, settled, generations>>

\* onDidChangeTextDocument for a document other than the source document:
\* the active editor, if any, shows the source document, so event.document
\* is not activeEditor.document
DidChangeOtherTextDocument ==
    /\ activated
    /\ shown' = FALSE
    /\ UNCHANGED <<activated, workspaceFolders, rules, files, docText,
                   activeTextEditor, linkIndex, rebuilds, refreshes,
                   decorations, settled, generations>>

\* onDidChangeActiveTextEditor
DidChangeActiveTextEditor(editor) ==
    /\ activated
    /\ activeTextEditor' = editor
    /\ LET results == findAllLinkMatches(linkIndex, rules, workspaceFolders, S, docText)
       IN  IF editor # NoPath
           THEN CallUpdateDecorations(results)
           ELSE UNCHANGED <<refreshes, decorations>>
    /\ shown' = FALSE
    /\ UNCHANGED <<activated, workspaceFolders, rules, files, docText,
                   linkIndex, rebuilds, settled, generations>>

\* the host changes vscode.workspace.workspaceFolders; no handler is registered
ChangeWorkspaceFolders(ws) ==
    /\ ws # workspaceFolders
    /\ workspaceFolders' = ws
    /\ rebuilds' = Disturb(rebuilds)
    /\ settled' = FALSE
    /\ shown' = FALSE
    /\ UNCHANGED <<activated, rules, files, docText, activeTextEditor,
                   linkIndex, refreshes, decorations, generations>>

\* the file f is deleted or made unreadable; no handler is registered
UnlinkFile(f) ==
    /\ f \in DOMAIN files
    /\ files' = [g \in DOMAIN files \ {f} |-> files[g]]
    /\ rebuilds' = Disturb(rebuilds)
    /\ settled' = FALSE
    /\ shown' = FALSE
    /\ UNCHANGED <<activated, workspaceFolders, rules, docText,
                   activeTextEditor, linkIndex, refreshes, decorations,
                   generations>>

\* the lists a caller can turn a returned list into: emptied, first element
\* removed, doubled
ModifiedLists(list) ==
    {<<>>, list \o list} \cup (IF list = <<>> THEN {} ELSE {Tail(list)})

\* a caller of getDestinations(text) modifies the list it was given
CallerModifiesDestinations(text) ==
    /\ activated
    /\ LET returned == getDestinationsResult(linkIndex, text)
       IN  \E newList \in ModifiedLists(returned.list) :
               linkIndex' = callerModifies(linkIndex, text, returned, newList)
    /\ shown' = FALSE
    /\ UNCHANGED <<activated, workspaceFolders, rules, files, docText,
                   activeTextEditor, rebuilds, refreshes, decorations,
                   settled, generations>>

\* the sequence s without its i-th element
Remove(s, i) == SubSeq(s, 1, i - 1) \o SubSeq(s, i + 1, Len(s))

\* LinkIndexer.rebuildIndex resumes after an await
RebuildResume(i) ==
    /\ i \in 1..Len(rebuilds)
    /\ rebuilds[i].pc = "loop"
    /\ LET rb == rebuilds[i]
           r == rebuildFrom(linkIndex, rb.rules, files, workspaceFolders, rb.next)
           inserts == r.index # linkIndex
       IN  /\ linkIndex' = r.index
           /\ rebuilds' = [rebuilds EXCEPT ![i] = [rb EXCEPT !.next = r.next,
                                                             !.pc = r.pc,
                                                             !.wrote = @ \/ inserts]]
           /\ generations' = IF inserts /\ ~rb.wrote THEN generations + 1
                             ELSE generations
    /\ shown' = FALSE
    /\ UNCHANGED <<activated, workspaceFolders, rules, files, docText,
                   activeTextEditor, refreshes, decorations, settled>>

\* rebuildIndex() of extension.ts resumes after `await
\* linkIndexer.rebuildIndex()` and refreshes the active editor; the command
\* handler that awaited it shows the message
RebuildDone(i) ==
    /\ i \in 1..Len(rebuilds)
    /\ rebuilds[i].pc = "returned"
    /\ LET rb == rebuilds[i]
           results == findAllLinkMatches(linkIndex, rules, workspaceFolders, S, docText)
       IN  /\ rebuilds' = Remove(rebuilds, i)
           /\ settled' = (rb.clean /\ rebuilds' = <<>>)
           /\ IF activeTextEditor # NoPath
              THEN CallUpdateDecorations(results)
              ELSE UNCHANGED <<refreshes, decorations>>
    /\ shown' = rebuilds[i].command
    /\ UNCHANGED <<activated, workspaceFolders, rules, files, docText,
                   activeTextEditor, linkIndex, generations>>

\* updateDecorations resumes after its awaits and sets the decorations
RefreshDone(i) ==
    /\ i \in 1..Len(refreshes)
    /\ decorations' = refreshes[i]
    /\ refreshes' = Remove(refreshes, i)
    /\ shown' = FALSE
    /\ UNCHANGED <<activated, workspaceFolders, rules, files, docText,
                   activeTextEditor, linkIndex, rebuilds, settled, generations>>

----------------------------------------------------------------------------
(* Specification: every rule set, destination content, source text and      *)
(* folder option, with every handler that requests a rebuild by itself.     *)
(* The refresh command, whose rebuild request is the one of an unchanged    *)
(* configuration followed by the message, is in SpecFair, SpecOverlap and   *)
(* SpecFaults.                                                              *)

Init ==
    /\ activated = FALSE
    /\ workspaceFolders \in WorkspaceOptions
    /\ rules \in Configs
    /\ docText \in SrcTexts
    /\ \E c \in D1Contents : files = (D1 :> c) @@ (D2 :> D2Content)
    /\ activeTextEditor \in {NoPath, S}
    /\ linkIndex = EmptyIndex
    /\ rebuilds = <<>>
    /\ refreshes = <<>>
    /\ decorations = NoDecorations
    /\ settled = FALSE
    /\ generations = 0
    /\ shown = FALSE

\* the keys a caller asks getDestinations for: those of the index and one
\* that no destination line yields
QueriedKeys == DOMAIN linkIndex \cup {<<"b", "b", "b">>}

Next ==
    \/ Activate
    \/ \E rs \in Configs : DidChangeConfiguration(rs)
    \/ DidChangeOtherConfiguration
    \/ \E c \in D1Contents : DidSaveTextDocument(D1, c)
    \/ DidSaveTextDocument(S, docText)
    \/ \E t \in SrcTexts \ {docText} : DidChangeTextDocument(t)
    \/ DidChangeOtherTextDocument
    \/ \E text \in QueriedKeys : CallerModifiesDestinations(text)
    \/ \E ed \in {NoPath, S} \ {activeTextEditor} : DidChangeActiveTextEditor(ed)
    \/ \E ws \in WorkspaceOptions : ChangeWorkspaceFolders(ws)
    \/ \E i \in 1..MaxRebuilds : RebuildResume(i)
    \/ \E i \in 1..MaxRebuilds : RebuildDone(i)
    \/ \E i \in 1..MaxRefreshes : RefreshDone(i)

Spec == Init /\ [][Next]_vars

----------------------------------------------------------------------------
(* Specification with fairness, for the progress of suspended calls: the    *)
(* rules and the file contents are fixed (the configuration is saved again  *)
(* unchanged, the files are saved unchanged) and the refresh command is    *)
(* invoked; the rest is as in Spec.                                         *)

InitFair ==
    /\ activated = FALSE
    /\ workspaceFolders \in WorkspaceOptions
    /\ rules = <<RTwoTo, RNoCap>>
    /\ docText \in SrcTexts
    /\ files = (D1 :> << <<"i", SP, "a">>, <<"i">> >>) @@ (D2 :> D2Content)
    /\ activeTextEditor \in {NoPath, S}
    /\ linkIndex = EmptyIndex
    /\ rebuilds = <<>>
    /\ refreshes = <<>>
    /\ decorations = NoDecorations
    /\ settled = FALSE
    /\ generations = 0
    /\ shown = FALSE

NextFair ==
    \/ Activate
    \/ RefreshCommand
    \/ DidChangeConfiguration(rules)
    \/ DidChangeOtherConfiguration
    \/ DidSaveTextDocument(D1, files[D1])
    \/ DidSaveTextDocument(S, docText)
    \/ \E t \in SrcTexts \ {docText} : DidChangeTextDocument(t)
    \/ \E ed \in {NoPath, S} \ {activeTextEditor} : DidChangeActiveTextEditor(ed)
    \/ \E ws \in WorkspaceOptions : ChangeWorkspaceFolders(ws)
    \/ \E i \in 1..MaxRebuilds : RebuildResume(i)
    \/ \E i \in 1..MaxRebuilds : RebuildDone(i)
    \/ \E i \in 1..MaxRefreshes : RefreshDone(i)

\* ENABLED RebuildResume(i)
CanResume(i) == i \in 1..Len(rebuilds) /\ rebuilds[i].pc = "loop"

\* ENABLED RebuildDone(i): the call has returned and, if its
\* updateDecorations call is going to be suspended, there is room for it
CanDone(i) ==
    /\ i \in 1..Len(rebuilds) /\ rebuilds[i].pc = "returned"
    /\ \/ activeTextEditor = NoPath
       \/ Len(refreshes) < MaxRefreshes
       \/ ~suspends(findAllLinkMatches(linkIndex, rules, workspaceFolders, S, docText))

\* The continuations of rebuildIndex and updateDecorations are promise
\* reactions, and the event loop runs every reaction that is due: weak
\* fairness of RebuildResume(i) and of RefreshDone(i), strong fairness of
\* RebuildDone(i), which the bound on suspended updateDecorations calls
\* disables from time to time.  The first two are written out with CanResume
\* and CanDone for ENABLED.
Fairness ==
    /\ \A i \in 1..MaxRebuilds :
          (<>[]CanResume(i)) => []<><<RebuildResume(i)>>_vars
    /\ \A i \in 1..MaxRebuilds :
          ([]<>CanDone(i)) => []<><<RebuildDone(i)>>_vars
    /\ \A i \in 1..MaxRefreshes : WF_vars(RefreshDone(i))

SpecFair == InitFair /\ [][NextFair]_vars /\ Fairness

----------------------------------------------------------------------------
(* Specification of overlapping rebuilds over one snapshot: the folders,    *)
(* the rules and the file contents are fixed (the configuration and the     *)
(* files are saved again unchanged), requests arrive while others run.      *)

InitOverlap ==
    /\ activated = FALSE
    /\ workspaceFolders = [defined |-> TRUE, folders |-> <<Root>>]
    /\ rules \in {<<RBasic>>, <<RTwoTo, RNoCap>>}
    /\ docText \in SrcTexts
    /\ \E c \in D1Contents : files = (D1 :> c) @@ (D2 :> D2Content)
    /\ activeTextEditor \in {NoPath, S}
    /\ linkIndex = EmptyIndex
    /\ rebuilds = <<>>
    /\ refreshes = <<>>
    /\ decorations = NoDecorations
    /\ settled = FALSE
    /\ generations = 0
    /\ shown = FALSE

NextOverlap ==
    \/ Activate
    \/ RefreshCommand
    \/ DidChangeConfiguration(rules)
    \/ DidSaveTextDocument(D1, files[D1])
    \/ \E t \in SrcTexts \ {docText} : DidChangeTextDocument(t)
    \/ \E ed \in {NoPath, S} \ {activeTextEditor} : DidChangeActiveTextEditor(ed)
    \/ \E i \in 1..MaxRebuilds : RebuildResume(i)
    \/ \E i \in 1..MaxRebuilds : RebuildDone(i)
    \/ \E i \in 1..MaxRefreshes : RefreshDone(i)

SpecOverlap == InitOverlap /\ [][NextOverlap]_vars

----------------------------------------------------------------------------
(* Specification of the previews and of incomplete rules: the rules carry   *)
(* preview objects or lack a part, the destination files have several       *)
(* lines; the folders and the rules are fixed (the configuration is saved   *)
(* again unchanged).                                                        *)

InitPreview ==
    /\ activated = FALSE
    /\ workspaceFolders = [defined |-> TRUE, folders |-> <<Root>>]
    /\ rules \in PreviewConfigs
    /\ docText \in PreviewTexts
    /\ files = PreviewFiles
    /\ activeTextEditor \in {NoPath, S}
    /\ linkIndex = EmptyIndex
    /\ rebuilds = <<>>
    /\ refreshes = <<>>
    /\ decorations = NoDecorations
    /\ settled = FALSE
    /\ generations = 0
    /\ shown = FALSE

NextPreview ==
    \/ Activate
    \/ DidChangeConfiguration(rules)
    \/ \E t \in PreviewTexts \ {docText} : DidChangeTextDocument(t)
    \/ \E ed \in {NoPath, S} \ {activeTextEditor} : DidChangeActiveTextEditor(ed)
    \/ \E i \in 1..MaxRebuilds : RebuildResume(i)
    \/ \E i \in 1..MaxRebuilds : RebuildDone(i)
    \/ \E i \in 1..MaxRefreshes : RefreshDone(i)

SpecPreview == InitPreview /\ [][NextPreview]_vars

----------------------------------------------------------------------------
(* Specification with a source pattern that can match the empty string.     *)
(* A handler whose whole-document scan does not terminate never returns, so *)
(* its step is not taken.                                                   *)

\* ([ab]*)
PStar == [valid |-> TRUE, pre |-> <<>>, cls |-> {"a", "b"}, min |-> 0,
          cap |-> TRUE]
RStar == [from |-> <<[includes |-> GDoc, patterns |-> PStar]>>,
          to   |-> <<[includes |-> GSrc, patterns |-> PId]>>]

\* ([ab\s]+) : a pattern that can match across a line break
PSpan == [valid |-> TRUE, pre |-> <<>>, cls |-> {"a", "b", SP, NL}, min |-> 1,
          cap |-> TRUE]
\* ^([ab]+) : a pattern with a line anchor
PAnchored == [valid |-> TRUE, pre |-> <<>>, cls |-> {"a", "b"}, min |-> 1,
              cap |-> TRUE, bol |-> TRUE]
RSpan == [from |-> <<[includes |-> GDoc, patterns |-> PSpan]>>,
          to   |-> <<[includes |-> GSrc, patterns |-> PId]>>]
RAnchored == [from |-> <<[includes |-> GDoc, patterns |-> PAnchored]>>,
              to   |-> <<[includes |-> GSrc, patterns |-> PId]>>]
ScanConfigs ==
    {<<RBasic>>, <<RStar>>, <<RBasic, RStar>>, <<RSpan>>, <<RAnchored>>}
\* the texts of the source document: those of one line and the two lines
\* "a", "b"
ScanTexts == PreviewTexts \cup { << <<"a">>, <<"b">> >> }

\* the while loop of findAllLinkMatches ends for every applicable source
\* descriptor of the source document with the lines given
ScanTerminates(lines) ==
    LET apps == getRulesForThisSource(rules, workspaceFolders, S)
    IN  \A i \in 1..Len(apps) :
            apps[i].fromPattern.patterns.valid =>
                ~ExecLoopDiverges(apps[i].fromPattern.patterns, JoinLines(lines), 0)

InitScan ==
    /\ activated = FALSE
    /\ workspaceFolders = [defined |-> TRUE, folders |-> <<Root>>]
    /\ rules \in ScanConfigs
    /\ docText \in ScanTexts
    /\ files = PreviewFiles
    /\ activeTextEditor \in {NoPath, S}
    /\ linkIndex = EmptyIndex
    /\ rebuilds = <<>>
    /\ refreshes = <<>>
    /\ decorations = NoDecorations
    /\ settled = FALSE
    /\ generations = 0
    /\ shown = FALSE

NextScan ==
    \/ (activeTextEditor = NoPath \/ ScanTerminates(docText)) /\ Activate
    \/ DidChangeConfiguration(rules)
    \/ \E t \in ScanTexts \ {docText} :
          (activeTextEditor # S \/ ScanTerminates(t)) /\ DidChangeTextDocument(t)
    \/ \E ed \in {NoPath, S} \ {activeTextEditor} :
          (ed = NoPath \/ ScanTerminates(docText)) /\ DidChangeActiveTextEditor(ed)
    \/ \E i \in 1..MaxRebuilds : RebuildResume(i)
    \/ \E i \in 1..MaxRebuilds :
          (activeTextEditor = NoPath \/ ScanTerminates(docText)) /\ RebuildDone(i)
    \/ \E i \in 1..MaxRefreshes : RefreshDone(i)

SpecScan == InitScan /\ [][NextScan]_vars

----------------------------------------------------------------------------
(* Specification with failing descriptors and files: the rules hold         *)
(* patterns that do not compile and a glob that throws, a destination file  *)
(* may be unreadable from the start or become so.  Fairness as in SpecFair. *)

InitFaults ==
    /\ activated = FALSE
    /\ workspaceFolders \in WorkspaceOptions
    /\ rules \in FaultConfigs
    /\ docText \in SrcTexts
    /\ files \in {(D1 :> << <<"i", SP, "a">>, <<"i">> >>) @@ (D2 :> D2Content),
                  (D1 :> << <<"i", SP, "a">>, <<"i">> >>)}
    /\ activeTextEditor \in {NoPath, S}
    /\ linkIndex = EmptyIndex
    /\ rebuilds = <<>>
    /\ refreshes = <<>>
    /\ decorations = NoDecorations
    /\ settled = FALSE
    /\ generations = 0
    /\ shown = FALSE

NextFaults ==
    \/ Activate
    \/ RefreshCommand
    \/ DidChangeConfiguration(rules)
    \/ \E f \in {D1, D2} : UnlinkFile(f)
    \/ \E t \in SrcTexts \ {docText} : DidChangeTextDocument(t)
    \/ \E ed \in {NoPath, S} \ {activeTextEditor} : DidChangeActiveTextEditor(ed)
    \/ \E ws \in WorkspaceOptions : ChangeWorkspaceFolders(ws)
    \/ \E i \in 1..MaxRebuilds : RebuildResume(i)
    \/ \E i \in 1..MaxRebuilds : RebuildDone(i)
    \/ \E i \in 1..MaxRefreshes : RefreshDone(i)

SpecFaults == InitFaults /\ [][NextFaults]_vars /\ Fairness

----------------------------------------------------------------------------
(* Vocabulary of the properties *)

\* the destination descriptors of the rules
Descriptors(rs) ==
    UNION {{rs[i].to[j] : j \in 1..Len(rs[i].to)} :
           i \in {n \in 1..Len(rs) : "to" \in DOMAIN rs[n]}}

\* the key of a match as specified: the text of capture group 1 when the
\* pattern has that group, otherwise the whole match, trimmed
KeyOf(m) == Trim(IF m.group THEN m.m1 ELSE m.m0)

\* the lines (file, 0-based line number) of the destination files on disk
DiskLines == UNION {{<<f, n>> : n \in 0..(Len(files[f]) - 1)} : f \in DOMAIN files}

\* the match of descriptor d on the line fl, NoMatch when d does not scan the
\* file of fl
ScanOf(d, fl) ==
    IF /\ Truthy(d, "includes") /\ Truthy(d, "patterns") /\ d.patterns.valid
       /\ isFileMatchGlob(workspaceFolders, fl[1], d.includes)
    THEN RegExpExec(d.patterns, files[fl[1]][fl[2] + 1], 0)
    ELSE NoMatch

\* the lines of the scanned destination files that yield key k under some
\* destination descriptor of the current rules
YieldingLines(k) ==
    {fl \in DiskLines :
        \E d \in Descriptors(rules) :
            ScanOf(d, fl).found /\ KeyOf(ScanOf(d, fl)) = k}

\* the matches of the applicable source descriptors in the source document,
\* each with its rule
SourceMatches ==
    LET apps == getRulesForThisSource(rules, workspaceFolders, S)
        found(a) == IF a.fromPattern.patterns.valid
                    THEN ExecLoop(a.fromPattern.patterns, JoinLines(docText), 0)
                    ELSE <<>>
    IN  UNION {{[rule |-> apps[i].rule, match |-> found(apps[i])[j]] :
                    j \in 1..Len(found(apps[i]))} : i \in 1..Len(apps)}

\* what the resolver returns for a source match, against the current index
Resolve(sm) == resultOfMatch(linkIndex, workspaceFolders, docText, sm.rule, sm.match)

\* the locations of the index
IndexLocations ==
    UNION {{linkIndex[k][j] : j \in 1..Len(linkIndex[k])} : k \in DOMAIN linkIndex}

\* the destination match that produced an indexed location
MatchOfLocation(l) == RegExpExec(l.by.patterns, l.text, 0)

\* the saved document matches the includes glob of a destination descriptor
MatchesDestinationGlob(doc) ==
    \E d \in Descriptors(rules) :
        Truthy(d, "includes") /\ isFileMatchGlob(workspaceFolders, doc, d.includes)

----------------------------------------------------------------------------
(* Properties *)

\* C1 (round-trip resolution): once a rebuild request has completed
\* undisturbed, if exactly one line of the scanned destination files yields
\* key k and the source document has a match whose key is k, the match
\* resolves to that file and line and getDestinations(k) has one element.
C1_RoundTripResolution ==
    (settled /\ workspaceFolders.defined) =>
        \A sm \in SourceMatches :
            LET k == KeyOf(sm.match)
            IN  Cardinality(YieldingLines(k)) = 1 =>
                    /\ Resolve(sm).dest.present
                    /\ <<Resolve(sm).dest.location.uri,
                         Resolve(sm).dest.location.line>> \in YieldingLines(k)
                    /\ Len(getDestinations(linkIndex, k)) = 1

\* C2 (broken link classification): at any time, a source match is given an
\* absent destination if and only if getDestinations of its key is empty.
C2_BrokenIffNoDestination ==
    \A sm \in SourceMatches :
        ~Resolve(sm).dest.present
            <=> (getDestinations(linkIndex, KeyOf(sm.match)) = <<>>)

\* C3 (save-triggered rebuild): saving a document starts a rebuild exactly
\* when its path matches the includes glob of some destination descriptor.
C3_SaveStartsRebuild ==
    [][ /\ \A c \in D1Contents :
              DidSaveTextDocument(D1, c) =>
                  (MatchesDestinationGlob(D1) <=> Len(rebuilds') = Len(rebuilds) + 1)
        /\ DidSaveTextDocument(S, docText) =>
              (MatchesDestinationGlob(S) <=> Len(rebuilds') = Len(rebuilds) + 1)
      ]_vars

\* activation or a configuration change affecting regexAnchor
RebuildRequested == Activate \/ \E rs \in Configs : DidChangeConfiguration(rs)

\* the step calls updateDecorations for the source document: the call takes
\* the results from the index the step leaves, then sets the decorations or
\* is suspended
RefreshCalled ==
    LET results == findAllLinkMatches(linkIndex', rules', workspaceFolders', S, docText')
    IN  \/ refreshes' = Append(refreshes, decorationsOf(results))
        \/ refreshes' = refreshes /\ decorations' = decorationsOf(results)

\* C4 (rebuild on activation and configuration change), amended: while
\* workspace folders are defined, activation and every configuration change
\* affecting regexAnchor start a rebuild, and with them undefined the request
\* returns at once, index untouched; every started rebuild completes (the
\* oldest suspended one completes again and again unless none is left); the
\* completion calls updateDecorations for the active editor when there is one.
C4_RebuildOnActivationAndConfigChange ==
    /\ [][ RebuildRequested =>
              IF workspaceFolders.defined
              THEN Len(rebuilds') = Len(rebuilds) + 1
              ELSE Len(rebuilds') = Len(rebuilds) /\ linkIndex' = linkIndex ]_vars
    /\ []<>(rebuilds = <<>>) \/ []<><<RebuildDone(1)>>_vars
    /\ [][ \A i \in 1..MaxRebuilds :
              (RebuildDone(i) /\ activeTextEditor # NoPath) => RefreshCalled ]_vars

\* C4 as stated: activation and every configuration change affecting
\* regexAnchor start a rebuild.
C4_EveryRequestStartsRebuild ==
    [][ RebuildRequested => Len(rebuilds') = Len(rebuilds) + 1 ]_vars

\* C4, its case: the rebuild started by activation has completed, the index
\* holds entries and the source document, shown in the active editor, has
\* the broken-link decorations of the results against that index.
C4_RebuildCompletedAndRefreshed ==
    /\ activated /\ settled /\ workspaceFolders.defined
    /\ linkIndex # EmptyIndex
    /\ activeTextEditor = S /\ refreshes = <<>>
    /\ decorations # NoDecorations
    /\ decorations = decorationsOf(
            findAllLinkMatches(linkIndex, rules, workspaceFolders, S, docText))

\* the entry (k, l) is what the indexer extracts, under some destination
\* descriptor of the current rules, from a line of a file on disk as it is now
Produced(k, l) ==
    /\ <<l.uri, l.line>> \in DiskLines
    /\ \E d \in Descriptors(rules) :
          LET m == ScanOf(d, <<l.uri, l.line>>)
          IN  /\ m.found
              /\ k = Trim(GroupOrWhole(m)) /\ k # <<>>
              /\ l.start = 0 /\ l.end = Len(files[l.uri][l.line + 1])

C6_NoDuplicateLocations ==
    \A k \in DOMAIN linkIndex :
        LET ds == getDestinations(linkIndex, k)
        IN  \A i, j \in 1..Len(ds) :
                LocationId(ds[i]) = LocationId(ds[j]) => i = j

\* C7 (idempotent rebuild): a rebuild that follows an undisturbed completed
\* one, with rules, files and folders unchanged and no other rebuild
\* overlapping, returns with the index entries (key, file, line, span) that
\* the index held when it started.
C7_IdempotentRebuild ==
    \A i \in 1..Len(rebuilds) :
        (rebuilds[i].fresh /\ rebuilds[i].pc = "returned") =>
            IndexEntries(linkIndex) = rebuilds[i].before

\* C7, its case: such a second rebuild has returned and the first one had
\* left entries.
C7_SecondRebuildReturned ==
    \E i \in 1..Len(rebuilds) :
        rebuilds[i].fresh /\ rebuilds[i].pc = "returned" /\ rebuilds[i].before # {}

\* C8 (keys trimmed on both sides): the key looked up for a source match is
\* its trimmed key, and the match resolves exactly when that key equals the
\* trimmed key of some indexed destination match.
C8_KeysTrimmedOnBothSides ==
    \A sm \in SourceMatches :
        /\ Resolve(sm).src.linkText = KeyOf(sm.match)
        /\ Resolve(sm).dest.present
             <=> \E l \in IndexLocations : KeyOf(MatchOfLocation(l)) = KeyOf(sm.match)

\* C9 (capture-group precedence): an entry indexed under a pattern with a
\* capture group has the trimmed text of group 1 as its key, an entry
\* indexed under a pattern without one the trimmed whole match.
C9_CaptureGroupPrecedence ==
    \A k \in DOMAIN linkIndex :
        \A j \in 1..Len(linkIndex[k]) :
            LET m == MatchOfLocation(linkIndex[k][j])
            IN  k = IF linkIndex[k][j].by.patterns.cap THEN Trim(m.m1) ELSE Trim(m.m0)

\* C10 (empty-key exclusion): no index entry comes from a destination match
\* whose key (group 1 if the pattern has it, otherwise the whole match)
\* trims to the empty string.
C10_EmptyKeyExclusion ==
    \A l \in IndexLocations : KeyOf(MatchOfLocation(l)) # <<>>

\* C11 (multiple destinations): once a rebuild request has completed
\* undisturbed, for every key k that n >= 2 distinct destination lines
\* yield, getDestinations(k) has exactly n elements and every one of the n
\* lines is the location of one of them.
C11_MultipleDestinations ==
    (settled /\ workspaceFolders.defined) =>
        \A k \in {KeyOf(ScanOf(dl[1], dl[2])) :
                    dl \in {x \in Descriptors(rules) \X DiskLines :
                                ScanOf(x[1], x[2]).found}} :
            LET n  == Cardinality(YieldingLines(k))
                ds == getDestinations(linkIndex, k)
            IN  n >= 2 =>
                    /\ Len(ds) = n
                    /\ \A fl \in YieldingLines(k) :
                          \E j \in 1..Len(ds) : <<ds[j].uri, ds[j].line>> = fl

\* LinkIndexer.rebuildIndex run from rule position i to its return, nothing
\* else running in between
RECURSIVE rebuildRest(_, _, _, _, _)
rebuildRest(index, rs, fs, ws, i) ==
    LET r == rebuildFrom(index, rs, fs, ws, i)
    IN  IF r.pc = "returned" THEN r.index
        ELSE rebuildRest(r.index, rs, fs, ws, r.next)

\* the index that one LinkIndexer.rebuildIndex call leaves when nothing else
\* runs before it returns
rebuildAll(rs, fs, ws) ==
    LET r == rebuildIndexEntry(EmptyIndex, rs, fs, ws)
    IN  IF r.pc = "returned" THEN r.index
        ELSE rebuildRest(r.index, rs, fs, ws, r.next)

\* a destination descriptor that fails: its pattern does not compile or its
\* glob throws
FailingTo(d) ==
    \/ Truthy(d, "patterns") /\ ~d.patterns.valid
    \/ Truthy(d, "includes") /\ GlobThrows(d.includes)

\* a source descriptor whose pattern does not compile
FailingFrom(d) == Truthy(d, "patterns") /\ ~d.patterns.valid

\* the rules without their failing destination descriptors
WithoutFailingTo(rs) ==
    [i \in 1..Len(rs) |->
        IF "to" \in DOMAIN rs[i]
        THEN [rs[i] EXCEPT !.to = SelectSeq(@, LAMBDA d : ~FailingTo(d))]
        ELSE rs[i]]

\* the rules without their failing source descriptors
WithoutFailingFrom(rs) ==
    [i \in 1..Len(rs) |->
        IF "from" \in DOMAIN rs[i]
        THEN [rs[i] EXCEPT !.from = SelectSeq(@, LAMBDA d : ~FailingFrom(d))]
        ELSE rs[i]]

\* C12 (failure isolation inside a rebuild): once a rebuild request has
\* completed undisturbed, the index is the one a rebuild leaves under the
\* rules without the failing destination descriptors, it holds no location
\* of an unreadable file, and it holds the entry of every line of a readable
\* file that a working descriptor matches with a non-empty key; and every
\* started rebuild completes.
C12_FailureIsolation ==
    /\ [] ((settled /\ workspaceFolders.defined) =>
            /\ linkIndex = rebuildAll(WithoutFailingTo(rules), files, workspaceFolders)
            /\ \A l \in IndexLocations : l.uri \in DOMAIN files
            /\ \A d \in Descriptors(WithoutFailingTo(rules)) :
                  \A fl \in DiskLines :
                      LET m == ScanOf(d, fl)
                      IN  (m.found /\ Trim(GroupOrWhole(m)) # <<>>) =>
                              <<Trim(GroupOrWhole(m)),
                                <<fl[1], fl[2], 0, Len(files[fl[1]][fl[2] + 1])>> >>
                                  \in IndexEntries(linkIndex))
    /\ []<>(rebuilds = <<>>) \/ []<><<RebuildDone(1)>>_vars

\* C12, its case: a rebuild has completed undisturbed under rules with a
\* destination pattern that does not compile and a destination glob that
\* throws, with an unreadable file matched by a destination glob, and the
\* index holds the entries of the working descriptor.
C12_RebuildCompletedBesideFailures ==
    /\ settled /\ workspaceFolders.defined
    /\ \E d \in Descriptors(rules) : Truthy(d, "patterns") /\ ~d.patterns.valid
    /\ \E d \in Descriptors(rules) : Truthy(d, "includes") /\ GlobThrows(d.includes)
    /\ D2 \notin DOMAIN files
    /\ linkIndex # EmptyIndex

\* C13 (source regex failure degrades locally): in every state the results
\* of findAllLinkMatches for the source document, and the result of
\* findMatchingLinkAtPosition at every position of it, are those under the
\* rules without the source descriptors whose pattern does not compile.
C13_SourceRegexFailureIsLocal ==
    /\ findAllLinkMatches(linkIndex, rules, workspaceFolders, S, docText)
         = findAllLinkMatches(linkIndex, WithoutFailingFrom(rules),
                              workspaceFolders, S, docText)
    /\ \A p \in Positions(docText) :
          findMatchingLinkAtPosition(linkIndex, rules, workspaceFolders, S, docText, p)
            = findMatchingLinkAtPosition(linkIndex, WithoutFailingFrom(rules),
                                         workspaceFolders, S, docText, p)

\* C13, its case: a source descriptor applicable to the source document has
\* a pattern that does not compile and the document has results.
C13_ResultsBesideBadPattern ==
    /\ \E i \in 1..Len(getRulesForThisSource(rules, workspaceFolders, S)) :
          ~getRulesForThisSource(rules, workspaceFolders, S)[i].fromPattern.patterns.valid
    /\ findAllLinkMatches(linkIndex, rules, workspaceFolders, S, docText) # <<>>
    /\ linkIndex # EmptyIndex

\* C14 (error containment at the host boundary): in every state, no hover
\* request at a position of the source document and no document-link
\* request for it is rejected.
C14_NoErrorAtHostBoundary ==
    /\ \A p \in Positions(docText) :
          provideHover(linkIndex, rules, workspaceFolders, files, S, docText, p).kind
              # "rejected"
    /\ provideDocumentLinks(linkIndex, rules, workspaceFolders, S, docText).kind
          # "rejected"

\* the matches of an applicable source descriptor on the line of position p
\* whose range contains p, as indices into the matches of the line
HitsAt(applicable, p) ==
    IF ~applicable.fromPattern.patterns.valid THEN {}
    ELSE LET ms == MatchAll(applicable.fromPattern.patterns, docText[p.line + 1], 0)
         IN  {j \in 1..Len(ms) : rangeContains(ms[j], p)}

\* C20 (point query short-circuits on the first hit): at every position p of
\* the source document, findMatchingLinkAtPosition returns absent when no
\* applicable descriptor has a match containing p, and otherwise the first
\* such match of the first such descriptor in configured order, with the
\* destination that getDestinations gives for its link text.
C20_PointQueryFirstHit ==
    \A p \in Positions(docText) :
        LET apps  == getRulesForThisSource(rules, workspaceFolders, S)
            cands == {i \in 1..Len(apps) : HitsAt(apps[i], p) # {}}
            r     == findMatchingLinkAtPosition(linkIndex, rules, workspaceFolders,
                                                S, docText, p)
        IN  IF cands = {} THEN ~r.found
            ELSE LET i  == CHOOSE c \in cands : \A d \in cands : c <= d
                     ms == MatchAll(apps[i].fromPattern.patterns, docText[p.line + 1], 0)
                     j  == CHOOSE h \in HitsAt(apps[i], p) :
                              \A g \in HitsAt(apps[i], p) : h <= g
                     ds == getDestinations(linkIndex, GroupOrWhole(ms[j]))
                 IN  /\ r.found
                     /\ r.src.linkText = GroupOrWhole(ms[j])
                     /\ r.src.range.start = [line |-> p.line, character |-> ms[j].index]
                     /\ r.src.range.end = [line |-> p.line,
                                           character |-> ms[j].index + Len(ms[j].m0)]
                     /\ r.dest.present = (ds # <<>>)
                     /\ r.dest.present => r.dest.location = ds[1]

\* C15 (no mixing of rebuild generations): in every state the entries of the
\* index were inserted by at most one rebuildIndex() call.
C15_NoMixedGenerations == generations <= 1

\* the step starts no rebuild and resumes none, and leaves the index, the
\* rules and the files unchanged
NoRebuild ==
    /\ rebuilds' = rebuilds /\ linkIndex' = linkIndex
    /\ rules' = rules /\ files' = files

\* the step calls no updateDecorations
NoRefresh == refreshes' = refreshes /\ decorations' = decorations

\* C17 (edits and editor switches never rebuild): a document-edit event or
\* an active-editor change starts no rebuild and resumes none, and leaves the
\* index, the rules and the files unchanged; an edit of the active editor's
\* document and a switch to an editor call updateDecorations for the active
\* editor, an edit of another document or with no active editor and a switch
\* to no editor call nothing.
C17_EditsNeverRebuild ==
    [][ /\ \A t \in SrcTexts :
              DidChangeTextDocument(t) =>
                 /\ NoRebuild
                 /\ IF activeTextEditor = S THEN RefreshCalled ELSE NoRefresh
        /\ DidChangeOtherTextDocument => NoRebuild /\ NoRefresh
        /\ \A ed \in {NoPath, S} :
              DidChangeActiveTextEditor(ed) =>
                 /\ NoRebuild
                 /\ IF ed # NoPath THEN RefreshCalled ELSE NoRefresh
      ]_vars

\* C17, its case: no rebuild is in flight, the index is populated, and the
\* active editor shows the decorations of the current text while a refresh
\* computed for another text is still suspended.
C17_RefreshedAfterEdit ==
    /\ activated /\ rebuilds = <<>> /\ linkIndex # EmptyIndex
    /\ activeTextEditor = S
    /\ Len(refreshes) = 1
    /\ decorations = decorationsOf(findAllLinkMatches(linkIndex, rules,
                                       workspaceFolders, S, docText))
    /\ decorations.broken # <<>>
    /\ refreshes[1] # decorations

\* the step is on the rebuild path: a rebuildIndex() call is started (clear,
\* then the inserts of its first rule) or a suspended one resumes (inserts)
RebuildPath ==
    \/ Len(rebuilds') = Len(rebuilds) + 1
    \/ \E i \in 1..MaxRebuilds : RebuildResume(i)

\* C18 (single writer): a step that changes the index is a step of the
\* rebuild path; the decoration refresh (on an edit, on an editor switch, at
\* the end of a rebuild, on resuming after its awaits) leaves the index
\* unchanged, and so does a caller who modifies the list that getDestinations
\* returned.
C18_SingleWriter ==
    [][ /\ linkIndex' # linkIndex => RebuildPath
        /\ \A text \in QueriedKeys :
              CallerModifiesDestinations(text) => linkIndex' = linkIndex
        /\ (\E i \in 1..MaxRefreshes : RefreshDone(i)) => linkIndex' = linkIndex
        /\ (\E i \in 1..MaxRebuilds : RebuildDone(i)) => linkIndex' = linkIndex
      ]_vars

\* C18, its case: the index holds a key with two locations, so that the list
\* getDestinations returns, with its first element removed by the caller,
\* differs from the list the index keeps.
C18_ReturnedListModified ==
    /\ activated
    /\ \E text \in DOMAIN linkIndex :
          LET returned == getDestinationsResult(linkIndex, text)
          IN  /\ Len(returned.list) >= 2
              /\ Tail(returned.list) # getDestinations(linkIndex, text)
              /\ callerModifies(linkIndex, text, returned, Tail(returned.list))
                    = linkIndex

\* every LinkIndexer.rebuildIndex call that was started has returned
AllReturned == \A i \in 1..Len(rebuilds) : rebuilds[i].pc = "returned"

\* C16 (overlapping rebuilds do not corrupt the index): over one rule set and
\* one file-system snapshot, once every started rebuild has finished, started
\* while another was running or not, the index holds, as a set of key and
\* location entries, what a single rebuild of the snapshot produces.
C16_OverlappingRebuilds ==
    (activated /\ AllReturned) =>
        IndexEntries(linkIndex)
            = IndexEntries(rebuildAll(rules, files, workspaceFolders))

\* C16, its case: two rebuilds have overlapped and both have finished; the
\* first resumed after the second had cleared, so the index, equal as a set
\* of entries, holds a location twice and differs as a sequence from the
\* index of a single rebuild.
C16_BothOverlappingRebuildsFinished ==
    /\ activated /\ Len(rebuilds) = 2 /\ AllReturned
    /\ linkIndex # rebuildAll(rules, files, workspaceFolders)
    /\ IndexEntries(linkIndex) # {}

\* the step ends a rebuildIndex() call that the command handler awaits
CommandRebuildDone(i) ==
    RebuildDone(i) /\ i \in 1..Len(rebuilds) /\ rebuilds[i].command

\* C19 (refresh command ordering), amended: with workspace folders defined
\* the refresh command starts a rebuild and shows nothing yet; when that
\* rebuild has returned, the decoration refresh is called for the active
\* editor if there is one and the confirmation is shown, and the index is
\* then the full index of the rules and files if nothing disturbed the
\* rebuild; with workspace folders undefined the command rebuilds nothing,
\* refreshes nothing and shows the confirmation at once.  The confirmation is
\* shown in no other step, and every started rebuild completes.
C19_RefreshCommandOrdering ==
    /\ [][ RefreshCommand =>
              IF workspaceFolders.defined
              THEN /\ Len(rebuilds') = Len(rebuilds) + 1
                   /\ rebuilds'[Len(rebuilds')].command
                   /\ ~shown'
              ELSE /\ rebuilds' = rebuilds /\ linkIndex' = linkIndex
                   /\ NoRefresh
                   /\ shown' ]_vars
    /\ [][ \A i \in 1..MaxRebuilds :
              CommandRebuildDone(i) =>
                 /\ shown'
                 /\ activeTextEditor # NoPath => RefreshCalled
                 /\ rebuilds[i].clean =>
                       linkIndex = rebuildAll(rules, files, workspaceFolders) ]_vars
    /\ [][ shown' =>
              \/ RefreshCommand /\ ~workspaceFolders.defined
              \/ \E i \in 1..MaxRebuilds : CommandRebuildDone(i) ]_vars
    /\ []<>(rebuilds = <<>>) \/ []<><<RebuildDone(1)>>_vars

\* C19 as stated: the refresh command performs a rebuild, and the
\* confirmation is shown only in a step that ends a rebuild.
C19_CommandAlwaysRebuilds ==
    [][ /\ RefreshCommand => Len(rebuilds') = Len(rebuilds) + 1
        /\ shown' => \E i \in 1..MaxRebuilds : CommandRebuildDone(i) ]_vars

\* C19, its case: the rebuild of a refresh command has just returned with
\* the full index, the confirmation is shown and the active editor has the
\* decorations of that index or a suspended refresh computed from it.
C19_ConfirmedAfterRebuild ==
    /\ shown /\ workspaceFolders.defined /\ activeTextEditor = S
    /\ linkIndex # EmptyIndex
    /\ linkIndex = rebuildAll(rules, files, workspaceFolders)
    /\ LET d == decorationsOf(findAllLinkMatches(linkIndex, rules,
                                  workspaceFolders, S, docText))
       IN  decorations = d \/ (refreshes # <<>> /\ refreshes[Len(refreshes)] = d)

\* the path lies under a workspace root and matches the glob taken relative
\* to that root
MatchesUnderRoot(ws, fileName, globPattern) ==
    /\ ws.defined
    /\ \E k \in 1..Len(ws.folders) :
          /\ Len(fileName) > Len(ws.folders[k])
          /\ SubSeq(fileName, 1, Len(ws.folders[k])) = ws.folders[k]
          /\ ~globPattern.abs
          /\ GlobMatches(ws.folders[k] \o globPattern.segs, fileName)

\* range and link text of every match of a source pattern in the document,
\* leftmost first and not overlapping
SourcesOfPattern(pat, lines) ==
    IF ~pat.valid THEN <<>>
    ELSE LET ms == MatchAll(pat, JoinLines(lines), 0)
         IN  [j \in 1..Len(ms) |->
                [range |-> [start |-> positionAt(lines, ms[j].index, 0),
                            end |-> positionAt(lines, ms[j].index + Len(ms[j].m0), 0)],
                 linkText |-> GroupOrWhole(ms[j])]]

\* the matches of the source descriptors froms[j..] whose glob matches the
\* document
RECURSIVE SourcesOfFroms(_, _, _, _)
SourcesOfFroms(ws, fileName, lines, froms) ==
    IF froms = <<>> THEN <<>>
    ELSE (IF Truthy(Head(froms), "includes") /\ Truthy(Head(froms), "patterns")
             /\ MatchesUnderRoot(ws, fileName, Head(froms).includes)
          THEN SourcesOfPattern(Head(froms).patterns, lines) ELSE <<>>)
         \o SourcesOfFroms(ws, fileName, lines, Tail(froms))

\* the matches of every source descriptor of every rule
RECURSIVE SourcesOfRules(_, _, _, _)
SourcesOfRules(rs, ws, fileName, lines) ==
    IF rs = <<>> THEN <<>>
    ELSE (IF "from" \in DOMAIN Head(rs)
          THEN SourcesOfFroms(ws, fileName, lines, Head(rs).from) ELSE <<>>)
         \o SourcesOfRules(Tail(rs), ws, fileName, lines)

\* C21 (whole-document resolution is not short-circuited): the results of
\* findAllLinkMatches for the source document are, one for one, the matches
\* of every source descriptor of every rule whose glob matches the document.
C21_EveryMatchHasOneResult ==
    LET results == findAllLinkMatches(linkIndex, rules, workspaceFolders, S, docText)
        sources == SourcesOfRules(rules, workspaceFolders, S, docText)
    IN  /\ Len(results) = Len(sources)
        /\ \A j \in 1..Len(results) : results[j].src = sources[j]

\* the applicable (rule, source descriptor) pairs of the source document
Applicable == getRulesForThisSource(rules, workspaceFolders, S)

\* the destinations the resolver pairs with the matches of the applicable
\* pair a: those of the whole-document scan and those of the point query
DestinationsFor(a) ==
    LET scan == matchesOfDescriptor(linkIndex, workspaceFolders, docText, a)
    IN  {scan[j].dest : j \in {n \in 1..Len(scan) : scan[n].dest.present}}
        \cup {pointOfDescriptor(linkIndex, workspaceFolders, docText, a, p).dest :
                p \in {q \in Positions(docText) :
                        LET r == pointOfDescriptor(linkIndex, workspaceFolders,
                                                   docText, a, q)
                        IN  r.found /\ r.dest.present}}

\* the destination descriptors of the rule whose includes glob matches path
MatchingTo(rule, path) ==
    {j \in 1..Len(rule.to) :
        /\ Truthy(rule.to[j], "includes")
        /\ MatchesUnderRoot(workspaceFolders, path, rule.to[j].includes)}

\* the preview configuration of the descriptor d: its preview object with
\* the defaults for the fields it omits
PreviewWithDefaults(d) ==
    LET p == IF "preview" \in DOMAIN d THEN d.preview ELSE <<>>
        base == [linesBefore |-> IF "linesBefore" \in DOMAIN p
                                 THEN p.linesBefore ELSE 2,
                 linesAfter  |-> IF "linesAfter" \in DOMAIN p
                                 THEN p.linesAfter ELSE 2,
                 hover       |-> IF "hover" \in DOMAIN p THEN p.hover ELSE TRUE]
    IN  IF "editor" \in DOMAIN p THEN base @@ [editor |-> p.editor] ELSE base

\* C22 (preview configuration selection): the preview configuration paired
\* with a resolved destination is that of a destination descriptor of the
\* rule of the matching source descriptor whose includes glob matches the
\* destination file's path, and the default when no glob of the rule matches.
C22_PreviewConfigurationSelection ==
    \A i \in 1..Len(Applicable) :
        \A dest \in DestinationsFor(Applicable[i]) :
            LET rule == Applicable[i].rule
                matching == MatchingTo(rule, dest.location.uri)
            IN  IF matching = {}
                THEN dest.previewConfig = [linesBefore |-> 2, linesAfter |-> 2,
                                           hover |-> TRUE]
                ELSE \E j \in matching :
                        dest.previewConfig = PreviewWithDefaults(rule.to[j])

\* C22, its case: one destination file is paired, under one rule, with the
\* preview of the rule's second descriptor, the first one not matching its
\* path, and under another rule, none of whose globs matches, with the
\* default.
C22_SelectedByPathWithinRule ==
    \E i, k \in 1..Len(Applicable) :
        \E di \in DestinationsFor(Applicable[i]) :
            \E dk \in DestinationsFor(Applicable[k]) :
                /\ di.location.uri = dk.location.uri
                /\ MatchingTo(Applicable[i].rule, di.location.uri) = {2}
                /\ di.previewConfig.hover = FALSE
                /\ MatchingTo(Applicable[k].rule, dk.location.uri) = {}
                /\ Len(Applicable[k].rule.to) > 0
                /\ dk.previewConfig = defaultConfig

\* the locations of the index whose file matches a destination descriptor
\* of the rule, each with the first such descriptor (the selected one)
SelectedFor(rule) ==
    {<<loc, rule.to[CHOOSE j \in MatchingTo(rule, loc.uri) :
                       \A h \in MatchingTo(rule, loc.uri) : j <= h]>> :
        loc \in {l \in UNION {{linkIndex[k][n] : n \in 1..Len(linkIndex[k])} :
                                k \in DOMAIN linkIndex} :
                    MatchingTo(rule, l.uri) # {}}}

\* the rules with a `to` array
RulesWithTo == {rules[i] : i \in {n \in 1..Len(rules) : "to" \in DOMAIN rules[n]}}

\* C23 (preview defaults): in the configuration of a selected descriptor
\* every field among linesBefore, linesAfter and hover that its preview
\* object sets is kept and every one it omits is 2, 2 and true; a selected
\* descriptor without a preview object gives exactly the default
\* configuration, with no editor regex.
C23_PreviewDefaults ==
    \A rule \in RulesWithTo :
        \A sel \in SelectedFor(rule) :
            LET cfg == getPreviewConfig(workspaceFolders, sel[1], rule.to)
                d == sel[2]
            IN  IF "preview" \in DOMAIN d
                THEN /\ cfg.linesBefore = IF "linesBefore" \in DOMAIN d.preview
                                          THEN d.preview.linesBefore ELSE 2
                     /\ cfg.linesAfter = IF "linesAfter" \in DOMAIN d.preview
                                         THEN d.preview.linesAfter ELSE 2
                     /\ cfg.hover = IF "hover" \in DOMAIN d.preview
                                    THEN d.preview.hover ELSE TRUE
                ELSE /\ cfg = [linesBefore |-> 2, linesAfter |-> 2, hover |-> TRUE]
                     /\ "editor" \notin DOMAIN cfg

\* C23, its case: the index holds a location whose selected descriptor sets
\* linesBefore and linesAfter and omits hover, one whose selected descriptor
\* sets hover only, and one whose selected descriptor has no preview object.
C23_SetAndOmittedFields ==
    /\ \E rule \in RulesWithTo : \E sel \in SelectedFor(rule) :
          /\ "preview" \in DOMAIN sel[2]
          /\ DOMAIN sel[2].preview = {"linesBefore", "linesAfter", "editor"}
          /\ getPreviewConfig(workspaceFolders, sel[1], rule.to).linesBefore = 0
    /\ \E rule \in RulesWithTo : \E sel \in SelectedFor(rule) :
          /\ "preview" \in DOMAIN sel[2]
          /\ DOMAIN sel[2].preview = {"hover"}
          /\ getPreviewConfig(workspaceFolders, sel[1], rule.to).linesAfter = 2
    /\ \E rule \in RulesWithTo : \E sel \in SelectedFor(rule) :
          "preview" \notin DOMAIN sel[2]

\* the index locations whose file can be opened
OpenableLocations == {l \in IndexLocations : l.uri \in DOMAIN files}

\* C24 (preview window clipping): for a destination on line t of a file
\* whose last line is lastLine, and any linesBefore and linesAfter, the
\* preview reads no line outside the file and consists of exactly the lines
\* max(0, t - linesBefore) .. min(lastLine, t + linesAfter).
C24_PreviewWindowClipped ==
    \A l \in OpenableLocations :
        \A lb, la \in 0..MaxPreviewLines :
            LET r == getDestinationContent(files, l, [linesBefore |-> lb,
                                                       linesAfter |-> la])
                lastLine == Len(files[l.uri]) - 1
                lo == IF l.line - lb < 0 THEN 0 ELSE l.line - lb
                hi == IF l.line + la > lastLine THEN lastLine ELSE l.line + la
            IN  /\ ~r.throws
                /\ r.lines = [n \in 1..(hi - lo + 1) |-> files[l.uri][lo + n]]

\* C24, its case: the index holds a destination on the first line of a file
\* of several lines and one on the last line of such a file, and the windows
\* of MaxPreviewLines lines before and after them are cut at the file's ends.
C24_WindowCutAtBothEnds ==
    /\ \E l \in OpenableLocations :
          /\ l.line = 0 /\ Len(files[l.uri]) > 1
          /\ Len(getDestinationContent(files, l,
                    [linesBefore |-> MaxPreviewLines, linesAfter |-> 0]).lines) = 1
    /\ \E l \in OpenableLocations :
          /\ l.line = Len(files[l.uri]) - 1 /\ l.line > 0
          /\ Len(getDestinationContent(files, l,
                    [linesBefore |-> 0, linesAfter |-> MaxPreviewLines]).lines) = 1

\* the results of the whole-document scan of the source document
ScanResults == findAllLinkMatches(linkIndex, rules, workspaceFolders, S, docText)

\* the value the editor regex extracts from the preview window of the
\* result's destination: capture group 1 when the regex has one, else the
\* whole match, trimmed; empty when the regex is invalid or has no match
ExtractedValue(result) ==
    LET config == result.dest.previewConfig
        read == getDestinationContent(files, result.dest.location, config)
        m == IF config.editor.valid /\ ~read.throws
             THEN editorExec(config.editor, contentOf(read.lines), 0)
             ELSE NoMatch
    IN  IF ~m.found THEN <<>>
        ELSE Trim(IF m.group THEN m.m1 ELSE m.m0)

\* C25 (inline extraction): a resolved match whose preview configuration
\* sets editor gets an inline annotation iff the editor regex, in multiline
\* mode, matches the preview window's text and capture group 1 (the whole
\* match for a regex without group) trimmed is non-empty, and the annotation
\* shows that value; a resolved match without editor gets none; in both
\* cases the match keeps its place among the resolved ranges.
C25_InlineExtraction ==
    \A j \in 1..Len(ScanResults) :
        LET result == ScanResults[j]
            option == createInlineDecorationOption(files, result)
        IN  (result.dest.present /\ result.dest.location.uri \in DOMAIN files) =>
                /\ IF "editor" \in DOMAIN result.dest.previewConfig
                   THEN /\ option.present = (ExtractedValue(result) # <<>>)
                        /\ option.present =>
                              option.contentText = <<SP, "(">>
                                  \o ExtractedValue(result) \o <<")">>
                   ELSE ~option.present
                /\ \E n \in 1..Len(rangesOf(ScanResults, TRUE)) :
                      rangesOf(ScanResults, TRUE)[n] = result.src.range

\* vscode.Range.contains for a range and a position of one line
inRange(range, position) ==
    /\ range.start.line = position.line
    /\ range.start.character <= position.character
    /\ position.character <= range.end.character

\* the hover the provider owes to a position inside the match of result:
\* 'Broken Link' for a broken link, nothing for a resolved link whose preview
\* configuration has hover = false, else the preview of its destination
\* anchored at the match's range
hoverFor(hover, result) ==
    IF ~result.dest.present
    THEN hover.kind = "broken" /\ hover.range = result.src.range
    ELSE IF result.dest.previewConfig.hover = FALSE
    THEN hover.kind = "null"
    ELSE /\ hover.kind = "preview"
         /\ hover.range = result.src.range
         /\ hover.location = result.dest.location

\* C26 (hover gating): at a position inside no match of the document the
\* hover provider returns nothing; at a position inside a match it returns
\* nothing when the link is resolved with hover = false, the destination
\* preview anchored at the match's range when it is resolved with hover true
\* or defaulted, and the 'Broken Link' hover when the link is broken.
C26_HoverGating ==
    \A position \in Positions(docText) :
        LET hover == provideHover(linkIndex, rules, workspaceFolders, files,
                                  S, docText, position)
            inside == {j \in 1..Len(ScanResults) :
                         inRange(ScanResults[j].src.range, position)}
        IN  IF inside = {} THEN hover.kind = "null"
            ELSE \E j \in inside : hoverFor(hover, ScanResults[j])

\* the globs isFileMatchGlob is asked about
Globs == {GSrc, GD1, GDoc, GAbsInside, GAbsolute, GParent}

\* whether the path lies inside the workspace folder
insideFolder(folder, fileName) ==
    /\ Len(fileName) > Len(folder)
    /\ SubSeq(fileName, 1, Len(folder)) = folder

\* C27 (glob membership stays inside the workspace): isFileMatchGlob is true
\* only for a path that lies inside some workspace root and matches the glob
\* resolved relative to that root; for a path outside all roots it is false
\* whatever the glob.
C27_GlobMembershipInsideWorkspace ==
    \A g \in Globs :
        \A j \in 1..Len(DiskFiles) :
            isFileMatchGlob(workspaceFolders, DiskFiles[j], g) =>
                /\ workspaceFolders.defined
                /\ \E k \in 1..Len(workspaceFolders.folders) :
                      LET folder == workspaceFolders.folders[k]
                      IN  /\ insideFolder(folder, DiskFiles[j])
                          /\ GlobMatches(IF g.abs THEN g.segs
                                         ELSE PathJoin(folder, g),
                                         DiskFiles[j])

\* no workspace is open: workspaceFolders is undefined or empty
NoFolder(ws) == ~ws.defined \/ Len(ws.folders) = 0

\* with no workspace open: isFileMatchGlob is false and does not throw for
\* every file and glob, and for every document the whole-document scan is
\* empty, the point query finds nothing at any position and neither throws
DegradesToNoLinks ==
    /\ \A g \in Globs \cup {GLong} :
          /\ ~isFileMatchGlobThrows(workspaceFolders, g)
          /\ \A j \in 1..Len(DiskFiles) :
                ~isFileMatchGlob(workspaceFolders, DiskFiles[j], g)
    /\ ~getRulesForThisSourceThrows(rules, workspaceFolders)
    /\ \A j \in 1..Len(DiskFiles) :
          /\ findAllLinkMatches(linkIndex, rules, workspaceFolders,
                                DiskFiles[j], docText) = <<>>
          /\ \A position \in Positions(docText) :
                ~findMatchingLinkAtPosition(linkIndex, rules, workspaceFolders,
                                            DiskFiles[j], docText, position).found

\* C28 (no workspace open): in every state with no workspace folder open,
\* also one that still holds the index built while a workspace was open,
\* no step adds an index entry, so no rebuild request does, and
\* isFileMatchGlob is false, findAllLinkMatches is empty and
\* findMatchingLinkAtPosition is absent for every document, without error.
C28_NoWorkspaceOpen ==
    /\ [](NoFolder(workspaceFolders) => DegradesToNoLinks)
    /\ [][NoFolder(workspaceFolders) =>
            IndexEntries(linkIndex') \subseteq IndexEntries(linkIndex)]_vars

\* C28, its case: the workspace has been closed after an index was built,
\* a rebuild has been requested since, and the index still holds the entries
\* of the closed workspace.
C28_StaleIndexWithoutWorkspace ==
    /\ activated
    /\ ~workspaceFolders.defined
    /\ settled
    /\ linkIndex # EmptyIndex
    /\ rules # <<>>

\* the elements of a sequence
Range(seq) == {seq[j] : j \in 1..Len(seq)}

\* the ranges of the three arrays a decoration refresh of the source
\* document computes
ResolvedRanges == Range(decorationArrays(files, ScanResults).links)
BrokenRanges == Range(decorationArrays(files, ScanResults).broken)
InlineRanges ==
    {d.range : d \in Range(decorationArrays(files, ScanResults).inline)}

\* C29 (disjoint decoration sets): the resolved-link ranges, the broken-link
\* ranges and the inline-annotation ranges a decoration refresh computes are
\* pairwise disjoint; no source range is both resolved and broken.
C29_DisjointDecorationSets ==
    /\ ResolvedRanges \cap BrokenRanges = {}
    /\ ResolvedRanges \cap InlineRanges = {}
    /\ BrokenRanges \cap InlineRanges = {}

\* the rule has a non-empty `from` list and a non-empty `to` list
HasFromAndTo(rule) ==
    /\ "from" \in DOMAIN rule /\ Len(rule.from) > 0
    /\ "to" \in DOMAIN rule /\ Len(rule.to) > 0

\* the rules that are not skipped, in their order
ValidRules(rs) == SelectSeq(rs, HasFromAndTo)

\* C30 (rule and descriptor skipping): every index entry comes from a
\* destination descriptor with includes and patterns of a rule with a
\* non-empty `from` and a non-empty `to`, and a finished rebuild leaves the
\* entries of exactly these rules, whatever rules and descriptors it skipped.
C30_RuleAndDescriptorSkipping ==
    /\ \A l \in IndexLocations :
          \E i \in 1..Len(rules) :
              /\ HasFromAndTo(rules[i])
              /\ \E j \in 1..Len(rules[i].to) :
                    /\ rules[i].to[j] = l.by
                    /\ Truthy(l.by, "includes")
                    /\ Truthy(l.by, "patterns")
    /\ settled =>
          IndexEntries(linkIndex) =
              IndexEntries(rebuildAll(ValidRules(rules), files, workspaceFolders))

\* the offsets at which the pattern matches in the line
MatchOffsets(pat, line) == {i \in 0..Len(line) : MatchAt(pat, line, i).found}

\* the leftmost match of the pattern in the line
LeftmostMatch(pat, line) ==
    MatchAt(pat, line, CHOOSE i \in MatchOffsets(pat, line) :
                            \A j \in MatchOffsets(pat, line) : i <= j)

\* the (key, position) pairs of the index whose location is on line n
EntriesOnLine(index, n) ==
    {kj \in UNION {{<<k, j>> : j \in 1..Len(index[k])} : k \in DOMAIN index} :
        index[kj[1]][kj[2]].line = n}

\* C31 (one location per destination line): scanning a file for a
\* destination descriptor inserts at most one location per line; every
\* location of the index spans its line from column 0 to the line's length
\* and its key comes from the leftmost match of the descriptor's pattern on
\* that line, also when the pattern matches several times in the line.
C31_OneLocationPerLine ==
    /\ \A d \in Descriptors(rules) : \A f \in DOMAIN files :
          (Truthy(d, "includes") /\ Truthy(d, "patterns")) =>
              LET scanned == processFile(EmptyIndex, files, f, d)
              IN  \A n \in 0..(Len(files[f]) - 1) :
                     /\ Cardinality(EntriesOnLine(scanned, n)) <= 1
                     /\ \A kj \in EntriesOnLine(scanned, n) :
                           scanned[kj[1]][kj[2]].text = files[f][n + 1]
    /\ \A k \in DOMAIN linkIndex : \A j \in 1..Len(linkIndex[k]) :
          LET l == linkIndex[k][j]
          IN  /\ l.start = 0 /\ l.end = Len(l.text)
              /\ MatchOffsets(l.by.patterns, l.text) # {}
              /\ k = Trim(GroupOrWhole(LeftmostMatch(l.by.patterns, l.text)))

\* C31, its case: the index holds a location of a line in which the
\* descriptor's pattern matches twice, with different keys, stored under the
\* key of the first match.
C31_LineWithSeveralMatches ==
    \E k \in DOMAIN linkIndex : \E j \in 1..Len(linkIndex[k]) :
        LET l == linkIndex[k][j]
            all == MatchAll(l.by.patterns, l.text, 0)
        IN  /\ Len(all) >= 2
            /\ Trim(GroupOrWhole(all[2])) # k
            /\ Trim(GroupOrWhole(all[1])) = k

\* the rules (by position) one of whose destination descriptors produced
\* the location
RulesOfLocation(l) ==
    {i \in 1..Len(rules) :
        "to" \in DOMAIN rules[i] /\ \E j \in 1..Len(rules[i].to) : rules[i].to[j] = l.by}

\* the list is in discovery order: an earlier element comes from a rule that
\* is not configured after the rule of a later one, and of two elements of
\* one descriptor in one file the earlier has the smaller line number
InDiscoveryOrder(list) ==
    \A p, q \in 1..Len(list) :
        p < q =>
            /\ \E i \in RulesOfLocation(list[p]) :
                  \E h \in RulesOfLocation(list[q]) : i <= h
            /\ (list[p].by = list[q].by /\ list[p].uri = list[q].uri) =>
                  list[p].line < list[q].line

\* the destination of every resolved result of the whole-document scan, of
\* the point query, of the hover and of the document links is the first
\* element of getDestinations for the result's link text
FirstDestinationUsed ==
    /\ \A j \in 1..Len(ScanResults) :
          ScanResults[j].dest.present =>
              ScanResults[j].dest.location =
                  getDestinations(linkIndex, ScanResults[j].src.linkText)[1]
    /\ \A position \in Positions(docText) :
          LET r == findMatchingLinkAtPosition(linkIndex, rules, workspaceFolders,
                                              S, docText, position)
              hover == provideHover(linkIndex, rules, workspaceFolders, files,
                                    S, docText, position)
          IN  (r.found /\ r.dest.present) =>
                 /\ r.dest.location = getDestinations(linkIndex, r.src.linkText)[1]
                 /\ hover.kind = "preview" => hover.location = r.dest.location
    /\ LET links == provideDocumentLinks(linkIndex, rules, workspaceFolders,
                                         S, docText)
       IN  links.kind = "links" =>
              \A j \in 1..Len(links.links) :
                  \E n \in 1..Len(ScanResults) :
                      /\ ScanResults[n].dest.present
                      /\ links.links[j].range = ScanResults[n].src.range
                      /\ links.links[j].target =
                            getDestinations(linkIndex,
                                            ScanResults[n].src.linkText)[1]

\* the last rebuild ran under the current rules and has returned: no
\* rebuild is suspended and the index holds no location of other rules
LastRebuildReturned ==
    /\ rebuilds = <<>>
    /\ \A l \in IndexLocations : RulesOfLocation(l) # {}

\* C32 (discovery order): once the last rebuild has returned,
\* getDestinations(k) lists the locations of k in the order in which it
\* inserted them (rules in configured order; within a file, ascending line
\* number), and a resolved match always uses the first element of that list.
C32_DiscoveryOrder ==
    /\ LastRebuildReturned =>
          \A k \in DOMAIN linkIndex : InDiscoveryOrder(getDestinations(linkIndex, k))
    /\ FirstDestinationUsed

\* the location was produced by a destination descriptor of the rule
ProducedByRule(l, rule) ==
    "to" \in DOMAIN rule /\ \E j \in 1..Len(rule.to) : rule.to[j] = l.by

\* C33 (resolution stays within a rule): a match found by a source
\* descriptor of rule R resolves only to a location produced by a
\* destination descriptor of R; when its key is indexed through descriptors
\* of other rules only, the match is broken.
C33_ResolutionWithinRule ==
    \A i \in 1..Len(Applicable) :
        \A dest \in DestinationsFor(Applicable[i]) :
            ProducedByRule(dest.location, Applicable[i].rule)

\* C34 (index well-formedness): in every state, also in the middle of a
\* rebuild, every key of the index is non-empty and equal to its trimmed
\* form and maps to a non-empty collection of locations, and for every key
\* asked hasDestination is true iff getDestinations is non-empty.
C34_IndexWellFormed ==
    /\ \A k \in DOMAIN linkIndex :
          /\ k # <<>>
          /\ k = Trim(k)
          /\ Len(linkIndex[k]) > 0
    /\ \A k \in QueriedKeys \cup {<<>>, <<SP>>} :
          hasDestination(linkIndex, k) <=> getDestinations(linkIndex, k) # <<>>

\* C34, its case: a rebuild is suspended between two rules and the index
\* holds a key whose matched value had to be trimmed.
C34_TrimmedKeyDuringRebuild ==
    /\ \E i \in 1..Len(rebuilds) : rebuilds[i].pc = "loop"
    /\ \E k \in DOMAIN linkIndex : \E j \in 1..Len(linkIndex[k]) :
          GroupOrWhole(MatchOfLocation(linkIndex[k][j])) # k

\* every started rebuild and every started decoration refresh has completed,
\* the last rebuild having run undisturbed with a workspace folder open, and
\* the active editor shows the source document
AllCompleted ==
    /\ activated
    /\ settled
    /\ workspaceFolders.defined /\ Len(workspaceFolders.folders) > 0
    /\ rebuilds = <<>>
    /\ refreshes = <<>>
    /\ activeTextEditor = S

\* C35 (decorations converge to the latest state): once every started
\* rebuild and every started decoration refresh has completed, the
\* decorations applied to the active editor are those that findAllLinkMatches
\* yields on the current document text with the final index; a refresh
\* started earlier that finishes later does not overwrite a later one.
C35_DecorationsConverge ==
    AllCompleted => decorations = decorationsOf(ScanResults)

\* C36 (whole-document scan terminates): for the source document and every
\* applicable source pattern that compiles, also one that can match the
\* empty string, the exec loop of the whole-document scan ends.
C36_WholeDocumentScanTerminates == ScanTerminates(docText)

\* vscode.Range.contains(position): the position is not before the start and
\* not after the end of the range
contains(range, position) ==
    /\ \/ range.start.line < position.line
       \/ /\ range.start.line = position.line
          /\ range.start.character <= position.character
    /\ \/ position.line < range.end.line
       \/ /\ position.line = range.end.line
          /\ position.character <= range.end.character

\* the result of the point query at a position of the source document
PointResult(position) ==
    findMatchingLinkAtPosition(linkIndex, rules, workspaceFolders, S, docText,
                               position)

\* C37 (point query and whole-document scan agree): for every position p of
\* the source document whose whole-document scan returns,
\* findMatchingLinkAtPosition returns a result iff some result of
\* findAllLinkMatches has a range that contains p, and the result returned is
\* one of those (same range, link text and destination); also for patterns
\* with a line anchor and patterns that can match across a line break.
C37_PointQueryAgreesWithScan ==
    ScanTerminates(docText) =>
        \A position \in Positions(docText) :
            LET point == PointResult(position)
                around == {j \in 1..Len(ScanResults) :
                             contains(ScanResults[j].src.range, position)}
            IN  /\ point.found <=> around # {}
                /\ point.found =>
                      \E j \in around :
                          /\ ScanResults[j].src = point.src
                          /\ ScanResults[j].dest = point.dest

\* String.prototype.split('\n')
RECURSIVE Split(_)
Split(s) ==
    IF \A i \in 1..Len(s) : s[i] # NL THEN <<s>>
    ELSE LET i == CHOOSE i \in 1..Len(s) :
                     s[i] = NL /\ \A h \in 1..(i - 1) : s[h] # NL
         IN  <<SubSeq(s, 1, i - 1)>> \o Split(SubSeq(s, i + 1, Len(s)))

\* LinkDecorator.createHoverContent for a destination whose file can be
\* opened: the lines of previewContent, each with the number it is labelled
\* with; the last piece of the split is left out when it is blank
createHoverContent(fs, destination, previewConfig) ==
    LET content == contentOf(getDestinationContent(fs, destination,
                                                   previewConfig).lines)
        lines == Split(content)
        labelled == [k \in 1..Len(lines) |->
                        [index |-> k - 1,
                         lineNumber |-> destination.line
                                        - previewConfig.linesBefore + (k - 1) + 1,
                         lineContent |-> lines[k]]]
    IN  SelectSeq(labelled,
                  LAMBDA e : Trim(e.lineContent) # <<>> \/ e.index < Len(lines) - 1)

\* C38 (hover line labels are true line numbers): for every destination
\* line and every linesBefore and linesAfter, also when the window is cut at
\* the start of the file, every line of the hover preview is labelled with
\* the 1-based number that line has in the destination file; no label is
\* zero or negative.
C38_HoverLineLabels ==
    \A l \in OpenableLocations :
        \A lb, la \in 0..MaxPreviewLines :
            LET preview == createHoverContent(files, l, [linesBefore |-> lb,
                                                         linesAfter |-> la])
                startLine == IF l.line - lb < 0 THEN 0 ELSE l.line - lb
            IN  \A k \in 1..Len(preview) :
                    /\ preview[k].lineNumber = startLine + k
                    /\ preview[k].lineNumber >= 1
                    /\ preview[k].lineContent = files[l.uri][preview[k].lineNumber]

\* C39 (preview belongs to the producing descriptor): a resolved destination
\* whose location was produced by the destination descriptor d of the
\* matching source descriptor's rule is paired with d's preview object
\* merged with the defaults, also when another descriptor of the rule listed
\* before d matches the same file.
C39_PreviewOfProducingDescriptor ==
    \A i \in 1..Len(Applicable) :
        \A dest \in DestinationsFor(Applicable[i]) :
            ProducedByRule(dest.location, Applicable[i].rule) =>
                dest.previewConfig = PreviewWithDefaults(dest.location.by)

====
